---- MODULE Spec2Model ----
(***************************************************************************)
(* Model of the Modbus connection pool (lib/ModbusConnectionManager): one  *)
(* gateway key, the entries created for it over time, their sockets, the   *)
(* connect attempts (promises), the acquire()/execute() calls in flight,   *)
(* the timers and the JavaScript job (microtask) queue.                    *)
(*                                                                         *)
(* The event loop is modelled as Node runs it: a macrotask (timer, socket  *)
(* event, application call) runs to completion, then the promise jobs it   *)
(* queued run in FIFO order.  A destroyed socket emits 'close' at the end  *)
(* of the loop iteration that destroyed it, before any timer or any I/O    *)
(* of a socket created later.  socket.connect() on a socket that is        *)
(* already connecting or connected makes Node destroy it with an error.    *)
(***************************************************************************)
EXTENDS Integers, Sequences, FiniteSets, TLC

\* ---- bounds of the model ------------------------------------------------
MaxEntries == 2
MaxSockets == 2
MaxAttempts == 3
MaxAcquire == 2
MaxExec == 3
MaxRelease == 1

\* ---- program constants ----------------------------------------------------
CONNECT_TIMEOUT == 10000
RECONNECT_DELAY == 30000
OPERATION_TIMEOUT == 5000

VARIABLES
    pool,        \* connections Map for the key: 0 = no entry, else the entry id
    entries,     \* ConnectionEntry objects ever created (they outlive the Map)
    sockets,     \* net.Socket objects ever created (with their jsmodbus client)
    attempts,    \* connect() calls: promise P made in connect, Q the async
                 \* function's promise, W the .catch(() => {}) wrapper of Q
    acqs,        \* acquire() calls
    ops,         \* execute() calls / QueuedOperations, in call order
    timers,      \* armed timers, in arming order
    mq,          \* promise job queue
    envLive,     \* application code is running in the current job drain
    tornDown,    \* entries removed from the Map by destroy()
    answersInOrder, \* the transport has answered calls in call order so far
    nRel         \* number of release() calls made

mgrVars == <<pool, entries, sockets, attempts, acqs, ops, timers, mq, envLive,
             tornDown, answersInOrder, nRel>>

\* ---- the model registry (lib/PowerTagRegistry) ------------------------------
\* The Map from device type code to model configuration.
POWERTAG_MODELS ==
       41 :> [typeId |-> 41, model |-> "A9MEM1520", name |-> "PowerTag M63 1P", phases |-> "1P",
           voltageMode |-> "L-N", phaseCount |-> 1, deviceCategory |-> "energy"]
    @@ 42 :> [typeId |-> 42, model |-> "A9MEM1521", name |-> "PowerTag M63 1P+N Top", phases |-> "1P+N",
           voltageMode |-> "L-N", phaseCount |-> 1, deviceCategory |-> "energy"]
    @@ 43 :> [typeId |-> 43, model |-> "A9MEM1522", name |-> "PowerTag M63 1P+N Bottom", phases |-> "1P+N",
           voltageMode |-> "L-N", phaseCount |-> 1, deviceCategory |-> "energy"]
    @@ 44 :> [typeId |-> 44, model |-> "A9MEM1540", name |-> "PowerTag M63 3P", phases |-> "3P",
           voltageMode |-> "L-L", phaseCount |-> 3, deviceCategory |-> "energy"]
    @@ 45 :> [typeId |-> 45, model |-> "A9MEM1541", name |-> "PowerTag M63 3P+N Top", phases |-> "3P+N",
           voltageMode |-> "L-N", phaseCount |-> 3, deviceCategory |-> "energy"]
    @@ 46 :> [typeId |-> 46, model |-> "A9MEM1542", name |-> "PowerTag M63 3P+N Bottom", phases |-> "3P+N",
           voltageMode |-> "L-N", phaseCount |-> 3, deviceCategory |-> "energy"]
    @@ 96 :> [typeId |-> 96, model |-> "A9MEM1543", name |-> "PowerTag M63 3P 230V", phases |-> "3P",
           voltageMode |-> "L-L", phaseCount |-> 3, deviceCategory |-> "energy"]
    @@ 81 :> [typeId |-> 81, model |-> "A9MEM1560", name |-> "PowerTag F63 1P+N", phases |-> "1P+N",
           voltageMode |-> "L-N", phaseCount |-> 1, deviceCategory |-> "energy"]
    @@ 82 :> [typeId |-> 82, model |-> "A9MEM1561", name |-> "PowerTag P63 1P+N Top", phases |-> "1P+N",
           voltageMode |-> "L-N", phaseCount |-> 1, deviceCategory |-> "energy"]
    @@ 83 :> [typeId |-> 83, model |-> "A9MEM1562", name |-> "PowerTag P63 1P+N Bottom", phases |-> "1P+N",
           voltageMode |-> "L-N", phaseCount |-> 1, deviceCategory |-> "energy"]
    @@ 84 :> [typeId |-> 84, model |-> "A9MEM1563", name |-> "PowerTag P63 1P+N Bottom", phases |-> "1P+N",
           voltageMode |-> "L-N", phaseCount |-> 1, deviceCategory |-> "energy"]
    @@ 85 :> [typeId |-> 85, model |-> "A9MEM1570", name |-> "PowerTag F63 3P+N", phases |-> "3P+N",
           voltageMode |-> "L-L", phaseCount |-> 3, deviceCategory |-> "energy"]
    @@ 86 :> [typeId |-> 86, model |-> "A9MEM1571", name |-> "PowerTag P63 3P+N Top", phases |-> "3P+N",
           voltageMode |-> "L-N", phaseCount |-> 3, deviceCategory |-> "energy"]
    @@ 87 :> [typeId |-> 87, model |-> "A9MEM1572", name |-> "PowerTag P63 3P+N Bottom", phases |-> "3P+N",
           voltageMode |-> "L-N", phaseCount |-> 3, deviceCategory |-> "energy"]
    @@ 101 :> [typeId |-> 101, model |-> "A9MEM1564", name |-> "PowerTag F63 1P+N 110V", phases |-> "1P+N",
           voltageMode |-> "L-N", phaseCount |-> 1, deviceCategory |-> "energy"]
    @@ 102 :> [typeId |-> 102, model |-> "A9MEM1573", name |-> "PowerTag F63 3P", phases |-> "3P",
           voltageMode |-> "L-L", phaseCount |-> 3, deviceCategory |-> "energy"]
    @@ 103 :> [typeId |-> 103, model |-> "A9MEM1574", name |-> "PowerTag F63 3P+N 110/230V", phases |-> "3P+N",
           voltageMode |-> "L-N", phaseCount |-> 3, deviceCategory |-> "energy"]
    @@ 92 :> [typeId |-> 92, model |-> "LV434020", name |-> "PowerTag NSX 250A 3P", phases |-> "3P",
           voltageMode |-> "L-L", phaseCount |-> 3, deviceCategory |-> "energy"]
    @@ 93 :> [typeId |-> 93, model |-> "LV434021", name |-> "PowerTag NSX 250A 4P", phases |-> "3P+N",
           voltageMode |-> "L-N", phaseCount |-> 3, deviceCategory |-> "energy"]
    @@ 94 :> [typeId |-> 94, model |-> "LV434022", name |-> "PowerTag NSX 630A 3P", phases |-> "3P",
           voltageMode |-> "L-L", phaseCount |-> 3, deviceCategory |-> "energy"]
    @@ 95 :> [typeId |-> 95, model |-> "LV434023", name |-> "PowerTag NSX 630A 4P", phases |-> "3P+N",
           voltageMode |-> "L-N", phaseCount |-> 3, deviceCategory |-> "energy"]
    @@ 104 :> [typeId |-> 104, model |-> "A9MEM1590", name |-> "PowerTag Rope 200A", phases |-> "3P+N",
           voltageMode |-> "L-N", phaseCount |-> 3, deviceCategory |-> "energy"]
    @@ 105 :> [typeId |-> 105, model |-> "A9MEM1591", name |-> "PowerTag Rope 600A", phases |-> "3P+N",
           voltageMode |-> "L-N", phaseCount |-> 3, deviceCategory |-> "energy"]
    @@ 106 :> [typeId |-> 106, model |-> "A9MEM1592", name |-> "PowerTag Rope 1000A", phases |-> "3P+N",
           voltageMode |-> "L-N", phaseCount |-> 3, deviceCategory |-> "energy"]
    @@ 107 :> [typeId |-> 107, model |-> "A9MEM1593", name |-> "PowerTag Rope 2000A", phases |-> "3P+N",
           voltageMode |-> "L-N", phaseCount |-> 3, deviceCategory |-> "energy"]
    @@ 121 :> [typeId |-> 121, model |-> "A9MEM1580", name |-> "PowerTag F160", phases |-> "3P+N",
           voltageMode |-> "L-N", phaseCount |-> 3, deviceCategory |-> "energy"]
    @@ 97 :> [typeId |-> 97, model |-> "A9XMC2D3", name |-> "PowerTag C 2DI", phases |-> "1P",
           voltageMode |-> "L-N", phaseCount |-> 1, deviceCategory |-> "control_2di"]
    @@ 98 :> [typeId |-> 98, model |-> "A9XMC1D3", name |-> "PowerTag C IO", phases |-> "1P",
           voltageMode |-> "L-N", phaseCount |-> 1, deviceCategory |-> "control_io"]
    @@ 171 :> [typeId |-> 171, model |-> "SMT10020", name |-> "HeatTag Sensor", phases |-> "1P",
           voltageMode |-> "L-N", phaseCount |-> 1, deviceCategory |-> "heattag"]

\* POWERTAG_MODELS.get(typeId): the configuration, or none (undefined).
NoModel == [typeId |-> 0, model |-> "", name |-> "", phases |-> "",
            voltageMode |-> "", phaseCount |-> 0, deviceCategory |-> ""]

modelsGet(typeId) ==
    IF typeId \in DOMAIN POWERTAG_MODELS THEN POWERTAG_MODELS[typeId] ELSE NoModel

\* ---- discovery (drivers/powertag/driver: discoverDevices, scanSlaveRange) ---
\* The unit-id ranges of the tiered scan and the early-exit threshold.
PrimaryStart == 150
PrimaryEnd == 170
SecondaryStart == 100
SecondaryEnd == 150
TimeoutThreshold == 10

\* The gateways considered: each probe of the device-type register fails
\* ("fail": exception response, timeout, dead socket) or returns one of these
\* register values; a range exposes at most MaxFound recognized devices.
MaxFound == 2
ProbeValues == {0, 65535, 41, 7}
NameValues == {"", "Kitchen", "fail"}

VARIABLES
    scanPc,       \* where discoverDevices() is: idle, connecting, primary,
                  \* secondary, done, failed
    scanSocket,   \* the transient socket: none, connecting, open, destroyed
    slaveId,      \* loop variable of scanSlaveRange
    endId,        \* end of the range being scanned (exclusive)
    devices,      \* devices found in the range being scanned
    consecutiveTimeouts,
    stopped,      \* the loop of scanSlaveRange has taken its break
    last,         \* what the latest loop iteration did
    probed,       \* number of probes sent to each range so far
    found         \* the list discoverDevices() returned

scanVars == <<scanPc, scanSocket, slaveId, endId, devices, consecutiveTimeouts,
              stopped, last, probed, found>>

\* The record of a loop iteration: the unit id probed, what was read, which
\* steps the iteration took, and whether it ended by waiting before the next.
NoProbe ==
    [id |-> 0, typeId |-> 0, failed |-> FALSE, lookup |-> FALSE, nameRead |-> FALSE,
     name |-> "", waited |-> FALSE]

ScanIdle ==
    /\ scanPc = "idle"
    /\ scanSocket = "none"
    /\ slaveId = 0
    /\ endId = 0
    /\ devices = <<>>
    /\ consecutiveTimeouts = 0
    /\ stopped = FALSE
    /\ last = NoProbe
    /\ probed = [primary |-> 0, secondary |-> 0]
    /\ found = <<>>

\* The descriptor pushed for a recognized device; its name is the name read
\* from the gateway or, when that is empty or the read failed, the model's
\* name with the unit id.
DeviceName(deviceName, modelConfig, id) ==
    IF deviceName \in {"", "fail"}
    THEN [text |-> modelConfig.name, id |-> id]
    ELSE [text |-> deviceName, id |-> 0]

\* The descriptor as it would be with the model's name in the model field.
Descriptor_modelFromName(id, typeId, deviceName) ==
    [name |-> DeviceName(deviceName, modelsGet(typeId), id),
     slaveId |-> id, typeId |-> typeId, model |-> modelsGet(typeId).name]

Descriptor(id, typeId, deviceName) ==
    [name |-> DeviceName(deviceName, modelsGet(typeId), id),
     slaveId |-> id, typeId |-> typeId, model |-> modelsGet(typeId).model]

\* ---- the register codec (lib/ModbusRegisters) --------------------------------
\* Register addresses (0-based, FC3 Read Holding Registers).
REG_CURRENT_L1 == 2999
REG_VOLTAGE_LN_1 == 3027
REG_VOLTAGE_LL_1 == 3019
REG_POWER_L1 == 3053
REG_POWER_FACTOR == 3083
REG_FREQUENCY == 3109
REG_TEMPERATURE == 3131
REG_ENERGY_IMPORTED == 3207
REG_ENERGY_EXPORTED == 3211
REG_DEVICE_TYPE == 31024
REG_DEVICE_NAME == 31000
REG_PAS_DEVICE_ADDRESS == 504
REG_COMMERCIAL_REF == 31060
REG_HEATTAG_TEMP == 4001
REG_HEATTAG_HUMIDITY == 4007
REG_HEATTAG_ALARM == 3323
REG_DI1_STATUS == 34065
REG_DI2_STATUS == 34165
REG_DO1_CMD == 37051
REG_DO1_STATUS == 37052

VARIABLES
    codecCall,   \* the codec function called last, its arguments and the
                 \* payloads the gateway answers its reads with
    requests,    \* the requests that call issued on the client, in order
    outcome      \* what the call's promise settled with

codecVars == <<codecCall, requests, outcome>>

CodecIdle ==
    /\ codecCall = [fn |-> "none"]
    /\ requests = <<>>
    /\ outcome = [ok |-> TRUE, value |-> <<>>]

\* ---- Buffer -----------------------------------------------------------------
\* A Buffer is a sequence of bytes; offsets count from 0 as in Node.  A read
\* beyond the end of the buffer throws RangeError (ok = FALSE).
Fits(buf, offset, n) == offset + n <= Len(buf)

RECURSIVE Unsigned(_)
Unsigned(bytes) ==
    IF bytes = <<>> THEN 0
    ELSE Unsigned(SubSeq(bytes, 1, Len(bytes) - 1)) * 256 + bytes[Len(bytes)]

Complement(bytes) == [i \in 1..Len(bytes) |-> 255 - bytes[i]]

Reversed(bytes) == [i \in 1..Len(bytes) |-> bytes[Len(bytes) + 1 - i]]

readUInt16BE(buf, offset) ==
    IF Fits(buf, offset, 2)
    THEN [ok |-> TRUE, v |-> Unsigned(SubSeq(buf, offset + 1, offset + 2))]
    ELSE [ok |-> FALSE, v |-> 0]

\* The IEEE 754 single with the four bytes as its bit pattern, first byte the
\* most significant.
readFloatBE(buf, offset) ==
    IF Fits(buf, offset, 4)
    THEN [ok |-> TRUE, v |-> [bits |-> SubSeq(buf, offset + 1, offset + 4), times |-> 1]]
    ELSE [ok |-> FALSE, v |-> [bits |-> <<>>, times |-> 1]]

\* The signed (two's complement) 64-bit integer of eight bytes, first byte the
\* most significant.
readBigInt64BE(buf, offset) ==
    IF Fits(buf, offset, 8)
    THEN LET b == SubSeq(buf, offset + 1, offset + 8) IN
         [ok |-> TRUE,
          v |-> IF b[1] < 128 THEN Unsigned(b) ELSE -(Unsigned(Complement(b)) + 1)]
    ELSE [ok |-> FALSE, v |-> 0]

\* Number(x) / d: the quotient, kept as numerator and denominator.
Divided(r, d) == [ok |-> r.ok, v |-> [num |-> r.v, den |-> d]]

\* f * k for a float f.
Times(r, k) == [ok |-> r.ok, v |-> [bits |-> r.v.bits, times |-> r.v.times * k]]

\* value === k for a 16-bit register value.
Equals(r, k) == [ok |-> r.ok, v |-> (r.v = k)]

\* String.prototype.trim() on characters below 256: the white space it strips.
WhiteSpace == {9, 10, 11, 12, 13, 32, 160}

RECURSIVE UpToNul(_)
UpToNul(bytes) ==
    IF bytes = <<>> \/ Head(bytes) = 0 THEN <<>>
    ELSE <<Head(bytes)>> \o UpToNul(Tail(bytes))

RECURSIVE trimStart(_)
trimStart(str) ==
    IF str # <<>> /\ Head(str) \in WhiteSpace THEN trimStart(Tail(str)) ELSE str

trim(str) == Reversed(trimStart(Reversed(trimStart(str))))

\* Parse a register buffer as a null-terminated ASCII string (the string is
\* the sequence of its character codes); it takes a buffer of any length.
parseAsciiBuffer(buf) == [ok |-> TRUE, v |-> trim(UpToNul(buf))]

\* ---- client.readHoldingRegisters / writeSingleRegister ----------------------
\* mem gives, for the start address of each read, the gateway's answer: the
\* payload (valuesAsBuffer), or no answer (exception response, timeout: the
\* read's promise rejects).
\* A request is the tuple of its kind, its register address and the number of
\* registers read or the value written.
Read(address, quantity) == <<"read", address, quantity>>

Write(address, value) == <<"write", address, value>>

Kind(request) == request[1]

Address(request) == request[2]

Quantity(request) == request[3]

Answer(bytes) == [ok |-> TRUE, bytes |-> bytes]

NoAnswer == [ok |-> FALSE, bytes |-> <<>>]

Unanswered(mem, reads) == {i \in 1..Len(reads) : ~mem[Address(reads[i])].ok}

\* The reads of a function that awaits them one after the other: it stops at
\* the first read that rejects.
Issued(mem, reads) ==
    LET n == IF Unanswered(mem, reads) = {} THEN Len(reads)
             ELSE CHOOSE i \in Unanswered(mem, reads) :
                      \A j \in Unanswered(mem, reads) : i <= j
    IN  SubSeq(reads, 1, n)

Resolved(value) == [ok |-> TRUE, value |-> value]

Rejected(error) == [ok |-> FALSE, error |-> error]

\* The promise of an async function that awaited reads and then built the
\* result from fields: the first rejected read or thrown error rejects it.
Settled(mem, reads, fields) ==
    IF Unanswered(mem, reads) # {} THEN Rejected("ReadError")
    ELSE IF \E f \in DOMAIN fields : ~fields[f].ok THEN Rejected("RangeError")
    ELSE Resolved([f \in DOMAIN fields |-> fields[f].v])

\* The promise of an async function that awaited reads and returned r.
SettledWith(mem, reads, r) ==
    IF Unanswered(mem, reads) # {} THEN Rejected("ReadError")
    ELSE IF ~r.ok THEN Rejected("RangeError")
    ELSE Resolved(r.v)

Call(mem, reads, result) == [requests |-> Issued(mem, reads), outcome |-> result]

\* ---- the codec functions ----------------------------------------------------
readAllRegistersReads(voltageMode) ==
    LET voltStart == IF voltageMode = "L-N" THEN REG_VOLTAGE_LN_1 ELSE REG_VOLTAGE_LL_1
    IN  <<Read(REG_CURRENT_L1, 6), Read(voltStart, 6), Read(REG_POWER_L1, 8),
          Read(REG_POWER_FACTOR, 2), Read(REG_FREQUENCY, 2), Read(REG_TEMPERATURE, 2),
          Read(REG_ENERGY_IMPORTED, 4), Read(REG_ENERGY_EXPORTED, 4)>>

\* readAllRegisters as it would be with both energy fields taken from the
\* imported-energy block.
readAllRegisters_exportedFromImported(mem, voltageMode) ==
    LET reads == readAllRegistersReads(voltageMode)
        currBuf == mem[Address(reads[1])].bytes
        voltBuf == mem[Address(reads[2])].bytes
        powerBuf == mem[Address(reads[3])].bytes
        pfBuf == mem[Address(reads[4])].bytes
        freqBuf == mem[Address(reads[5])].bytes
        tempBuf == mem[Address(reads[6])].bytes
        importBuf == mem[Address(reads[7])].bytes
    IN  Call(mem, reads, Settled(mem, reads,
          [currentL1 |-> readFloatBE(currBuf, 0),
           currentL2 |-> readFloatBE(currBuf, 4),
           currentL3 |-> readFloatBE(currBuf, 8),
           voltagePh1 |-> readFloatBE(voltBuf, 0),
           voltagePh2 |-> readFloatBE(voltBuf, 4),
           voltagePh3 |-> readFloatBE(voltBuf, 8),
           powerL1 |-> readFloatBE(powerBuf, 0),
           powerL2 |-> readFloatBE(powerBuf, 4),
           powerL3 |-> readFloatBE(powerBuf, 8),
           totalPower |-> readFloatBE(powerBuf, 12),
           powerFactor |-> readFloatBE(pfBuf, 0),
           frequency |-> readFloatBE(freqBuf, 0),
           temperature |-> readFloatBE(tempBuf, 0),
           energyImported |-> Divided(readBigInt64BE(importBuf, 0), 1000),
           energyExported |-> Divided(readBigInt64BE(importBuf, 0), 1000)]))

readAllRegisters(mem, voltageMode) ==
    LET reads == readAllRegistersReads(voltageMode)
        currBuf == mem[Address(reads[1])].bytes
        voltBuf == mem[Address(reads[2])].bytes
        powerBuf == mem[Address(reads[3])].bytes
        pfBuf == mem[Address(reads[4])].bytes
        freqBuf == mem[Address(reads[5])].bytes
        tempBuf == mem[Address(reads[6])].bytes
        importBuf == mem[Address(reads[7])].bytes
        exportBuf == mem[Address(reads[8])].bytes
    IN  Call(mem, reads, Settled(mem, reads,
          [currentL1 |-> readFloatBE(currBuf, 0),
           currentL2 |-> readFloatBE(currBuf, 4),
           currentL3 |-> readFloatBE(currBuf, 8),
           voltagePh1 |-> readFloatBE(voltBuf, 0),
           voltagePh2 |-> readFloatBE(voltBuf, 4),
           voltagePh3 |-> readFloatBE(voltBuf, 8),
           powerL1 |-> readFloatBE(powerBuf, 0),
           powerL2 |-> readFloatBE(powerBuf, 4),
           powerL3 |-> readFloatBE(powerBuf, 8),
           totalPower |-> readFloatBE(powerBuf, 12),
           powerFactor |-> readFloatBE(pfBuf, 0),
           frequency |-> readFloatBE(freqBuf, 0),
           temperature |-> readFloatBE(tempBuf, 0),
           energyImported |-> Divided(readBigInt64BE(importBuf, 0), 1000),
           energyExported |-> Divided(readBigInt64BE(exportBuf, 0), 1000)]))

readHeatTagRegistersReads ==
    <<Read(REG_HEATTAG_TEMP, 2), Read(REG_HEATTAG_HUMIDITY, 2), Read(REG_HEATTAG_ALARM, 1)>>

readHeatTagRegisters(mem) ==
    LET reads == readHeatTagRegistersReads
    IN  Call(mem, reads, Settled(mem, reads,
          [temperature |-> readFloatBE(mem[REG_HEATTAG_TEMP].bytes, 0),
           humidity |-> Times(readFloatBE(mem[REG_HEATTAG_HUMIDITY].bytes, 0), 100),
           alarmLevel |-> readUInt16BE(mem[REG_HEATTAG_ALARM].bytes, 0)]))

readControl2DIRegistersReads == <<Read(REG_DI1_STATUS, 1), Read(REG_DI2_STATUS, 1)>>

\* readControl2DIRegisters as it would be without the inversion (true for 1).
readControl2DIRegisters_notInverted(mem) ==
    LET reads == readControl2DIRegistersReads
    IN  Call(mem, reads, Settled(mem, reads,
          [di1Status |-> Equals(readUInt16BE(mem[REG_DI1_STATUS].bytes, 0), 1),
           di2Status |-> Equals(readUInt16BE(mem[REG_DI2_STATUS].bytes, 0), 1)]))

\* Register value: 0 = On, 1 = Off; inverted so that true = On.
readControl2DIRegisters(mem) ==
    LET reads == readControl2DIRegistersReads
    IN  Call(mem, reads, Settled(mem, reads,
          [di1Status |-> Equals(readUInt16BE(mem[REG_DI1_STATUS].bytes, 0), 0),
           di2Status |-> Equals(readUInt16BE(mem[REG_DI2_STATUS].bytes, 0), 0)]))

readControlIORegistersReads == <<Read(REG_DI1_STATUS, 1), Read(REG_DO1_STATUS, 1)>>

\* readControlIORegisters as it would be with the output decoded like the
\* input (true for 0).
readControlIORegisters_outputLikeInput(mem) ==
    LET reads == readControlIORegistersReads
    IN  Call(mem, reads, Settled(mem, reads,
          [di1Status |-> Equals(readUInt16BE(mem[REG_DI1_STATUS].bytes, 0), 0),
           outputStatus |-> Equals(readUInt16BE(mem[REG_DO1_STATUS].bytes, 0), 0)]))

readControlIORegisters(mem) ==
    LET reads == readControlIORegistersReads
    IN  Call(mem, reads, Settled(mem, reads,
          [di1Status |-> Equals(readUInt16BE(mem[REG_DI1_STATUS].bytes, 0), 0),
           outputStatus |-> Equals(readUInt16BE(mem[REG_DO1_STATUS].bytes, 0), 1)]))

\* writeControlIOOutput as it would be with the boolean written as it is
\* (1 for on, 0 for off).
writeControlIOOutput_writesBoolean(on, accepted) ==
    [requests |-> <<Write(REG_DO1_CMD, IF on THEN 1 ELSE 0)>>,
     outcome |-> IF accepted THEN Resolved(<<>>) ELSE Rejected("WriteError")]

\* value true = On (2), value false = Off (1); accepted: the gateway
\* acknowledges the write.
writeControlIOOutput(on, accepted) ==
    [requests |-> <<Write(REG_DO1_CMD, IF on THEN 2 ELSE 1)>>,
     outcome |-> IF accepted THEN Resolved(<<>>) ELSE Rejected("WriteError")]

readDeviceTypeReads == <<Read(REG_DEVICE_TYPE, 1)>>

readDeviceType(mem) ==
    LET reads == readDeviceTypeReads
    IN  Call(mem, reads,
             SettledWith(mem, reads, readUInt16BE(mem[REG_DEVICE_TYPE].bytes, 0)))

readDeviceNameReads == <<Read(REG_DEVICE_NAME, 10)>>

readDeviceName(mem) ==
    LET reads == readDeviceNameReads
    IN  Call(mem, reads,
             SettledWith(mem, reads, parseAsciiBuffer(mem[REG_DEVICE_NAME].bytes)))

readCommercialReferenceReads == <<Read(REG_COMMERCIAL_REF, 16)>>

readCommercialReference(mem) ==
    LET reads == readCommercialReferenceReads
    IN  Call(mem, reads,
             SettledWith(mem, reads, parseAsciiBuffer(mem[REG_COMMERCIAL_REF].bytes)))

\* 99 slots of 5 registers = 495 registers, read in 4 chunks (125 registers
\* is the most one read returns).
readPanelServerDeviceAddressesReads ==
    LET baseReg == REG_PAS_DEVICE_ADDRESS
    IN  <<Read(baseReg, 125), Read(baseReg + 125, 125),
          Read(baseReg + 250, 125), Read(baseReg + 375, 120)>>

\* The device address table of a Panel Server: the first register of a slot
\* holds the unit id of its device (0 or 65535: empty).  The result is the
\* Map from occupied slot to unit id.
readPanelServerDeviceAddresses(mem) ==
    LET reads == readPanelServerDeviceAddressesReads
        unitId(slot) ==
            LET regOffset == (slot - 1) * 5
                chunkIndex == regOffset \div 125
                indexInChunk == (regOffset % 125) * 2
            IN  readUInt16BE(mem[Address(reads[chunkIndex + 1])].bytes, indexInChunk)
        occupied == {slot \in 1..99 : unitId(slot).ok /\ unitId(slot).v \notin {0, 65535}}
    IN  Call(mem, reads,
             SettledWith(mem, reads,
                 [ok |-> \A slot \in 1..99 : unitId(slot).ok,
                  v |-> [slot \in occupied |-> unitId(slot).v]]))

\* ---- the device (drivers/powertag/device) ---------------------------------
\* The gateway keys (address:port) a device's settings may name.
Keys == {"gw1", "gw2"}

MaxSettings == 3

VARIABLES
    devPc,         \* "new", "stopped" (onInit returned on an unknown model type),
                   \* "running" or "uninit"
    devSettings,   \* this.settings: the gateway key the device holds
    devAvailable,  \* setAvailable() / setUnavailable() as called last
    acquireCalls,  \* acquire() calls the device has made, per key
    releaseCalls,  \* release() calls the device has made, per key
    nSettings      \* number of onSettings() calls

devVars == <<devPc, devSettings, devAvailable, acquireCalls, releaseCalls, nSettings>>

DeviceNew ==
    /\ devPc = "new"
    /\ devSettings = "gw1"
    /\ devAvailable = FALSE
    /\ acquireCalls = [k \in Keys |-> 0]
    /\ releaseCalls = [k \in Keys |-> 0]
    /\ nSettings = 0

vars == <<mgrVars, scanVars, codecVars, devVars>>

None == [k |-> "none", a |-> 0]

Cur ==
    [pool |-> pool, entries |-> entries, sockets |-> sockets,
     attempts |-> attempts, acqs |-> acqs, ops |-> ops, timers |-> timers,
     mq |-> mq, envLive |-> envLive, tornDown |-> tornDown,
     answersInOrder |-> answersInOrder, nRel |-> nRel]

\* ---- promises -------------------------------------------------------------
Pending == [st |-> "pending", re |-> <<>>]

Job(t, id, st) == [t |-> t, id |-> id, st |-> st]

\* resolve()/reject() of promise k of attempt a: the first settlement wins and
\* queues one job per registered reaction, in registration order.
Settle(S, k, a, st) ==
    LET p == S.attempts[a][k] IN
    IF p.st # "pending" THEN S
    ELSE [S EXCEPT !.attempts[a][k] = [st |-> st, re |-> <<>>],
                   !.mq = @ \o [i \in 1..Len(p.re) |->
                                  Job(p.re[i].t, p.re[i].id, st)]]

\* promise.then / await promise: register a reaction (run at once as a job
\* when the promise is already settled).
Then(S, k, a, t, id) ==
    LET p == S.attempts[a][k] IN
    IF p.st = "pending"
    THEN [S EXCEPT !.attempts[a][k].re = Append(@, [t |-> t, id |-> id])]
    ELSE [S EXCEPT !.mq = Append(@, Job(t, id, p.st))]

\* The caller of a settled call continues n jobs later.
Wake(S, n) == [S EXCEPT !.mq = Append(@, Job("wake", n, "ok"))]

\* ---- timers ---------------------------------------------------------------
Dur(k) ==
    CASE k = "op" -> OPERATION_TIMEOUT
      [] k = "conn" -> CONNECT_TIMEOUT
      [] k = "reconn" -> RECONNECT_DELAY

SetTimeout(S, k, id) == [S EXCEPT !.timers = Append(@, [k |-> k, id |-> id])]

ClearTimeout(S, k, id) ==
    [S EXCEPT !.timers = SelectSeq(@, LAMBDA t : ~(t.k = k /\ t.id = id))]

RemoveAt(seq, i) == [j \in 1..(Len(seq) - 1) |-> IF j < i THEN seq[j] ELSE seq[j + 1]]

\* A timer cannot fire before one armed earlier with a delay not longer.
CanFire(S, i) == \A j \in 1..(i - 1) : Dur(S.timers[j].k) > Dur(S.timers[i].k)

\* ---- sockets --------------------------------------------------------------
\* socket.destroy(): 'close' is emitted later, once; a destroyed socket emits
\* no 'connect' and no further 'error', so its listeners are dropped.
DestroySocket(S, s) ==
    IF S.sockets[s].state = "destroyed" THEN S
    ELSE [S EXCEPT !.sockets[s].state = "destroyed",
                   !.sockets[s].closePending = TRUE,
                   !.sockets[s].listeners = <<>>]

\* new net.Socket() and new Modbus.client.TCP(socket, 1): the client of the
\* pair starts with unit id 1.
createSocketAndClient(S, e) ==
    [S EXCEPT !.sockets = Append(@, [state |-> "idle", closePending |-> FALSE,
                                     entry |-> e, listeners |-> <<>>,
                                     unitId |-> 1])]

\* ---- result channels ------------------------------------------------------
\* op.resolve / op.reject as they would be if a later settlement replaced
\* the earlier one.
deliver_lastWins(S, o, res) ==
    Wake([S EXCEPT !.ops[o].res = res], 2)

\* op.resolve / op.reject: the first settlement of the result channel wins; the
\* caller continues two jobs later (through the async function's promise).
deliver(S, o, res) ==
    IF S.ops[o].res # "none" THEN S
    ELSE Wake([S EXCEPT !.ops[o].res = res], 2)

\* throw inside execute(): the call fails, the caller continues one job later.
throwExec(S, o, res) ==
    Wake([S EXCEPT !.ops[o].res = res, !.ops[o].where = "gone"], 1)

RECURSIVE RejectAll(_, _, _)
RejectAll(S, q, res) ==
    IF q = <<>> THEN S ELSE RejectAll(deliver(S, Head(q), res), Tail(q), res)

RECURSIVE MarkGone(_, _)
MarkGone(S, q) ==
    IF q = <<>> THEN S
    ELSE MarkGone([S EXCEPT !.ops[Head(q)].where = "gone"], Tail(q))

\* ---- connect() ------------------------------------------------------------
NewAttempt(e) == [entry |-> e, P |-> Pending, Q |-> Pending, W |-> Pending]

\* connect() as it would be without the replacement of a destroyed socket.
connectSocket_reusesSocket(S, e) == S

\* The socket connect() works on: a fresh socket + client pair when the
\* entry's socket is destroyed, else the entry's socket.
connectSocket(S, e) ==
    IF S.sockets[S.entries[e].socket].state = "destroyed"
    THEN [createSocketAndClient(S, e) EXCEPT
              !.entries[e].socket = Len(S.sockets) + 1]
    ELSE S

\* connect(entry) with entry.connecting null (every call site checks it):
\* attempt a = Len(attempts) + 1 gets promise P, the connect timeout is armed,
\* socket.connect() is called and the once('error') listener registered.
\* Being an async function, connect returns Q, which adopts P one job later.
connect(S, e) ==
    IF S.entries[e].connecting # None THEN S
    ELSE
    LET a == Len(S.attempts) + 1
        S1 == connectSocket(S, e)
        s == S1.entries[e].socket
    IN  [S1 EXCEPT !.attempts = Append(@, NewAttempt(e)),
                   !.entries[e].connecting = [k |-> "P", a |-> a],
                   !.timers = Append(@, [k |-> "conn", id |-> a]),
                   !.sockets[s].state = IF @ = "idle" THEN "connecting" ELSE "doomed",
                   !.sockets[s].listeners = Append(@, a),
                   !.mq = Append(@, Job("thenable", a, "ok"))]

\* Room left in the model for what connect(entry) allocates.
ConnectRoom(S, e) ==
    /\ Len(S.attempts) < MaxAttempts
    /\ S.sockets[S.entries[e].socket].state = "destroyed" => Len(S.sockets) < MaxSockets

\* ---- processQueue() -------------------------------------------------------
\* The slaveId argument of the o-th execute() call: the application addresses
\* a different device with each call, none of them unit 1.
slaveIdOf(o) == o + 1

\* The drain loop from its while test to its next await (or its exit): the
\* operation is shifted off the queue, its slave id is bound on the entry's
\* client and its transport call is issued on that client.
drain(S, e) ==
    LET q == S.entries[e].queue IN
    IF q # <<>> /\ S.entries[e].connected
    THEN LET o == Head(q) IN
         SetTimeout([S EXCEPT !.entries[e].queue = Tail(q),
                              !.sockets[S.entries[e].socket].unitId = slaveIdOf(o),
                              !.ops[o].where = "run",
                              !.ops[o].tcall = "out",
                              !.ops[o].sock = S.entries[e].socket],
                    "op", o)
    ELSE [S EXCEPT !.entries[e].processing = FALSE]

processQueue(S, e) ==
    IF S.entries[e].processing THEN S
    ELSE drain([S EXCEPT !.entries[e].processing = TRUE], e)

\* The drain loop as it would be if a failed operation ended the loop.
resume_stopsOnFailure(S, o, res) ==
    IF res = "value"
    THEN drain(deliver([S EXCEPT !.ops[o].where = "gone"], o, res), S.ops[o].entry)
    ELSE [deliver([S EXCEPT !.ops[o].where = "gone"], o, res) EXCEPT
              !.entries[S.ops[o].entry].processing = FALSE]

\* The drain loop as it would be if a failed operation failed the whole queue.
resume_failsQueue(S, o, res) ==
    IF res = "value"
    THEN drain(deliver([S EXCEPT !.ops[o].where = "gone"], o, res), S.ops[o].entry)
    ELSE LET e == S.ops[o].entry
             q == S.entries[e].queue
         IN  [MarkGone(RejectAll(deliver([S EXCEPT !.ops[o].where = "gone"], o, res),
                                 q, res), q) EXCEPT
                  !.entries[e].queue = <<>>,
                  !.entries[e].processing = FALSE]

\* The drain loop after its await: settle the operation, go on with the loop.
resume(S, o, res) ==
    drain(deliver([S EXCEPT !.ops[o].where = "gone"], o, res), S.ops[o].entry)

\* ---- acquire() ------------------------------------------------------------
NewEntry(s) ==
    [refCount |-> 0, connected |-> FALSE, connecting |-> None, queue |-> <<>>,
     processing |-> FALSE, socket |-> s]

lookupOrCreate(S) ==
    IF S.pool # 0 THEN S
    ELSE LET e == Len(S.entries) + 1 IN
         [createSocketAndClient(S, e) EXCEPT
              !.entries = Append(@, NewEntry(Len(S.sockets) + 1)),
              !.pool = e]

acquire(S) ==
    LET c == Len(S.acqs) + 1
        S0 == lookupOrCreate(S)
        e == S0.pool
        S1 == [S0 EXCEPT !.entries[e].refCount = @ + 1]
        cg == S1.entries[e].connecting
    IN  IF ~S1.entries[e].connected /\ cg = None
        THEN LET a == Len(S1.attempts) + 1 IN
             Then([connect(S1, e) EXCEPT
                       !.acqs = Append(@, [entry |-> e, st |-> "wait", att |-> a])],
                  "Q", a, "acq", c)
        ELSE IF cg # None
        THEN Then([S1 EXCEPT
                       !.acqs = Append(@, [entry |-> e, st |-> "wait", att |-> cg.a])],
                  cg.k, cg.a, "acq", c)
        ELSE Wake([S1 EXCEPT
                       !.acqs = Append(@, [entry |-> e, st |-> "ok", att |-> 0])], 1)

AcquireRoom(S) ==
    /\ Len(S.acqs) < MaxAcquire
    /\ S.pool = 0 => Len(S.entries) < MaxEntries /\ Len(S.sockets) < MaxSockets
    /\ S.pool # 0 /\ ~S.entries[S.pool].connected /\ S.entries[S.pool].connecting = None
          => ConnectRoom(S, S.pool)
    /\ S.pool = 0 => Len(S.attempts) < MaxAttempts

\* ---- release() ------------------------------------------------------------
\* release() as it would be with `refCount < 0` for `refCount <= 0`.
release_keepsLastEntry(S) ==
    IF S.pool = 0 THEN S
    ELSE LET e == S.pool
             S1 == [S EXCEPT !.entries[e].refCount = @ - 1]
         IN  IF S1.entries[e].refCount < 0
             THEN [DestroySocket(S1, S1.entries[e].socket) EXCEPT !.pool = 0]
             ELSE S1

\* release() as it would be without `entry.socket.destroy()`.
release_leavesSocketOpen(S) ==
    IF S.pool = 0 THEN S
    ELSE LET e == S.pool
             S1 == [S EXCEPT !.entries[e].refCount = @ - 1]
         IN  IF S1.entries[e].refCount <= 0 THEN [S1 EXCEPT !.pool = 0] ELSE S1

\* release() as it would be if it looked the entry up the way acquire() does.
release_createsEntry(S) ==
    LET S0 == lookupOrCreate(S)
        e == S0.pool
        S1 == [S0 EXCEPT !.entries[e].refCount = @ - 1]
    IN  IF S1.entries[e].refCount <= 0
        THEN [DestroySocket(S1, S1.entries[e].socket) EXCEPT !.pool = 0]
        ELSE S1

release(S) ==
    IF S.pool = 0 THEN S
    ELSE LET e == S.pool
             S1 == [S EXCEPT !.entries[e].refCount = @ - 1]
         IN  IF S1.entries[e].refCount <= 0
             THEN [DestroySocket(S1, S1.entries[e].socket) EXCEPT !.pool = 0]
             ELSE S1

\* ---- execute() ------------------------------------------------------------
NewOp(e, where, res) ==
    [entry |-> e, where |-> where, res |-> res, tcall |-> "none", sock |-> 0]

\* new Promise(...) at the end of execute(): push, start the loop when idle.
enqueue(S, o) ==
    LET e == S.ops[o].entry IN
    processQueue([S EXCEPT !.entries[e].queue = Append(@, o),
                           !.ops[o].where = "queue"], e)

\* execute() on an entry of the pool.
executeOnEntry(S, e) ==
    LET o == Len(S.ops) + 1 IN
    IF ~S.entries[e].connected
    THEN LET a == Len(S.attempts) + 1
             S1 == IF S.entries[e].connecting = None
                   THEN Then([connect(S, e) EXCEPT
                                  !.entries[e].connecting = [k |-> "W", a |-> a]],
                             "Q", a, "catchW", a)
                   ELSE S
             cg == S1.entries[e].connecting
         IN  Then([S1 EXCEPT !.ops = Append(@, NewOp(e, "wait", "none"))],
                  cg.k, cg.a, "exec", o)
    ELSE enqueue([S EXCEPT !.ops = Append(@, NewOp(e, "new", "none"))], o)

\* execute() as it would be if it created the missing entry as acquire() does.
executeNoEntry_createsEntry(S) ==
    executeOnEntry(lookupOrCreate(S), lookupOrCreate(S).pool)

\* execute() on a key that has no entry: throw, nothing else.
executeNoEntry(S) ==
    Wake([S EXCEPT !.ops = Append(@, NewOp(0, "gone", "NotConnected"))], 1)

execute(S) ==
    IF S.pool = 0 THEN executeNoEntry(S) ELSE executeOnEntry(S, S.pool)

ExecuteRoom(S) ==
    /\ Len(S.ops) < MaxExec
    /\ S.pool # 0 /\ ~S.entries[S.pool].connected /\ S.entries[S.pool].connecting = None
          => ConnectRoom(S, S.pool)

ConnectErrorKind(st) == IF st = "timeout" THEN "ConnectTimeout" ELSE "ConnectError"

\* execute() after `await entry.connecting`.
executeResumed(S, o, st) ==
    IF st # "ok" THEN throwExec(S, o, ConnectErrorKind(st))
    ELSE IF ~S.entries[S.ops[o].entry].connected THEN throwExec(S, o, "NotConnected")
    ELSE enqueue(S, o)

\* acquire() after its await as it would be if a failed acquire gave its
\* reference back.
acquireResumed_givesBack(S, c, st) ==
    LET e == S.acqs[c].entry
        S1 == [S EXCEPT !.acqs[c].st = IF st = "ok" THEN "ok" ELSE ConnectErrorKind(st)]
    IN  IF st = "ok" THEN Wake(S1, 1)
        ELSE Wake([S1 EXCEPT !.entries[e].refCount = @ - 1,
                             !.pool = IF S1.entries[e].refCount <= 1 /\ @ = e
                                      THEN 0 ELSE @], 1)

\* acquire() after its await.
acquireResumed(S, c, st) ==
    Wake([S EXCEPT !.acqs[c].st = IF st = "ok" THEN "ok" ELSE ConnectErrorKind(st)], 1)

\* ---- socket handlers ------------------------------------------------------
\* The close handler as it would be without `entry.queue = []`.
onClose_keepsQueue(S, e) ==
    LET q == S.entries[e].queue
        S1 == MarkGone(RejectAll(S, q, "ConnectionClosed"), q)
        S2 == [S1 EXCEPT !.entries[e].connected = FALSE,
                         !.entries[e].connecting = None,
                         !.entries[e].processing = FALSE]
    IN  IF S2.entries[e].refCount > 0 THEN SetTimeout(S2, "reconn", e) ELSE S2

\* The close handler as it would be without the reconnect timer.
onClose_noReconnect(S, e) ==
    LET q == S.entries[e].queue
        S1 == MarkGone(RejectAll(S, q, "ConnectionClosed"), q)
    IN  [S1 EXCEPT !.entries[e].connected = FALSE,
                   !.entries[e].connecting = None,
                   !.entries[e].queue = <<>>,
                   !.entries[e].processing = FALSE]

\* socket.on('close') registered by setupSocketHandlers for entry e.
onClose(S, e) ==
    LET q == S.entries[e].queue
        S1 == MarkGone(RejectAll(S, q, "ConnectionClosed"), q)
        S2 == [S1 EXCEPT !.entries[e].connected = FALSE,
                         !.entries[e].connecting = None,
                         !.entries[e].queue = <<>>,
                         !.entries[e].processing = FALSE]
    IN  IF S2.entries[e].refCount > 0 THEN SetTimeout(S2, "reconn", e) ELSE S2

\* The reconnect timer's callback as it would be without its refCount test.
onReconnectTimer_noRefCheck(S, e) ==
    IF ~S.entries[e].connected /\ S.entries[e].connecting = None
    THEN connect(S, e)
    ELSE S

\* The reconnect timer's callback.
onReconnectTimer(S, e) ==
    IF /\ S.entries[e].refCount > 0
       /\ ~S.entries[e].connected
       /\ S.entries[e].connecting = None
    THEN connect(S, e)
    ELSE S

\* The connect timeout's callback as it would be without its reject().
onConnectTimeout_noReject(S, a) ==
    LET e == S.attempts[a].entry
        S1 == DestroySocket(S, S.entries[e].socket)
    IN  [S1 EXCEPT !.entries[e].connecting = None]

\* The connect timeout's callback of attempt a.
onConnectTimeout(S, a) ==
    LET e == S.attempts[a].entry
        S1 == DestroySocket(S, S.entries[e].socket)
    IN  Settle([S1 EXCEPT !.entries[e].connecting = None], "P", a, "timeout")

\* The socket.connect callback of attempt a.
onConnected(S, a) ==
    LET e == S.attempts[a].entry IN
    Settle([ClearTimeout(S, "conn", a) EXCEPT !.entries[e].connected = TRUE,
                                              !.entries[e].connecting = None],
           "P", a, "ok")

\* The once('error') listener of attempt a.
onConnectError(S, a) ==
    LET e == S.attempts[a].entry IN
    Settle([ClearTimeout(S, "conn", a) EXCEPT !.entries[e].connecting = None],
           "P", a, "error")

RECURSIVE ForEach(_, _, _)
ForEach(Op(_, _), S, seq) ==
    IF seq = <<>> THEN S ELSE ForEach(Op, Op(S, Head(seq)), Tail(seq))

\* ---- destroy() ------------------------------------------------------------
\* destroy() as it would be without rejecting the queued operations.
destroy_noReject(S) ==
    IF S.pool = 0 THEN S
    ELSE LET e == S.pool
             S1 == DestroySocket(S, S.entries[e].socket)
         IN  [S1 EXCEPT !.pool = 0, !.tornDown = @ \cup {e}]

destroy(S) ==
    IF S.pool = 0 THEN S
    ELSE LET e == S.pool
             S1 == DestroySocket(S, S.entries[e].socket)
             S2 == RejectAll(S1, S1.entries[e].queue, "ManagerDestroyed")
         IN  [S2 EXCEPT !.pool = 0, !.tornDown = @ \cup {e}]

\* ---- the event loop --------------------------------------------------------
Quiet(S) == S.mq = <<>>

DoomPending(S) == \E s \in 1..Len(S.sockets) : S.sockets[s].state = "doomed"

ClosePending(S) == \E s \in 1..Len(S.sockets) : S.sockets[s].closePending

\* Between two loop iterations: nothing of the current one is left to run.
Idle(S) == Quiet(S) /\ ~DoomPending(S) /\ ~ClosePending(S)

\* The application may call in: from its own timers and I/O between loop
\* iterations, or while its code runs in the current job drain.
EnvMay(S) == S.envLive \/ Idle(S)

Commit(N, live) ==
    /\ pool' = N.pool
    /\ entries' = N.entries
    /\ sockets' = N.sockets
    /\ attempts' = N.attempts
    /\ acqs' = N.acqs
    /\ ops' = N.ops
    /\ timers' = N.timers
    /\ mq' = N.mq
    /\ envLive' = (live /\ ~Idle(N))
    /\ tornDown' = N.tornDown
    /\ answersInOrder' = N.answersInOrder
    /\ nRel' = N.nRel
    /\ UNCHANGED <<scanVars, codecVars, devVars>>

Init ==
    /\ pool = 0
    /\ entries = <<>>
    /\ sockets = <<>>
    /\ attempts = <<>>
    /\ acqs = <<>>
    /\ ops = <<>>
    /\ timers = <<>>
    /\ mq = <<>>
    /\ envLive = FALSE
    /\ tornDown = {}
    /\ answersInOrder = TRUE
    /\ nRel = 0
    /\ ScanIdle
    /\ CodecIdle
    /\ DeviceNew

\* ---- application calls ----------------------------------------------------
EnvAcquire ==
    /\ EnvMay(Cur)
    /\ AcquireRoom(Cur)
    /\ Commit(acquire(Cur), TRUE)

EnvExecute ==
    /\ EnvMay(Cur)
    /\ ExecuteRoom(Cur)
    /\ Commit(execute(Cur), TRUE)

EnvRelease ==
    /\ EnvMay(Cur)
    /\ nRel < MaxRelease
    /\ Commit([release(Cur) EXCEPT !.nRel = @ + 1], TRUE)

EnvDestroy ==
    /\ EnvMay(Cur)
    /\ tornDown = {}
    /\ pool # 0
    /\ Commit(destroy(Cur), TRUE)

\* ---- promise jobs ---------------------------------------------------------
Popped == [Cur EXCEPT !.mq = Tail(@)]

\* NewPromiseResolveThenableJob of connect()'s return value: Q follows P.
JobThenable ==
    /\ mq # <<>> /\ Head(mq).t = "thenable"
    /\ Commit(Then(Popped, "P", Head(mq).id, "adoptQ", Head(mq).id), envLive)

JobAdoptQ ==
    /\ mq # <<>> /\ Head(mq).t = "adoptQ"
    /\ Commit(Settle(Popped, "Q", Head(mq).id, Head(mq).st), envLive)

\* .catch(() => {}) of execute(): W is fulfilled whatever Q's outcome.
JobCatchW ==
    /\ mq # <<>> /\ Head(mq).t = "catchW"
    /\ Commit(Settle(Popped, "W", Head(mq).id, "ok"), envLive)

JobAcquireResumed ==
    /\ mq # <<>> /\ Head(mq).t = "acq"
    /\ Commit(acquireResumed(Popped, Head(mq).id, Head(mq).st), envLive)

JobExecuteResumed ==
    /\ mq # <<>> /\ Head(mq).t = "exec"
    /\ Commit(executeResumed(Popped, Head(mq).id, Head(mq).st), envLive)

JobWake ==
    /\ mq # <<>> /\ Head(mq).t = "wake"
    /\ IF Head(mq).id > 1
       THEN Commit(Wake(Popped, Head(mq).id - 1), envLive)
       ELSE Commit(Popped, TRUE)

\* ---- transport and timer events -------------------------------------------
Answered(S, o) ==
    [S EXCEPT !.ops[o].tcall = "done",
              !.answersInOrder = @ /\ ~\E o2 \in 1..(o - 1) :
                    /\ S.ops[o2].tcall = "out"
                    /\ S.ops[o2].entry = S.ops[o].entry]

\* The operation's transport call completes with a value.
OpCompletesAt(o) ==
    /\ Idle(Cur)
    /\ ops[o].tcall = "out"
    /\ sockets[ops[o].sock].state = "open"
    /\ IF ops[o].where = "run"
       THEN Commit(resume(ClearTimeout(Answered(Cur, o), "op", o), o, "value"), FALSE)
       ELSE Commit(Answered(Cur, o), FALSE)

\* The operation's transport call fails.
OpFailsAt(o) ==
    /\ Idle(Cur)
    /\ ops[o].tcall = "out"
    /\ IF ops[o].where = "run"
       THEN Commit(resume(ClearTimeout(Answered(Cur, o), "op", o), o, "ProtocolError"), FALSE)
       ELSE Commit(Answered(Cur, o), FALSE)

Fired(i) == [Cur EXCEPT !.timers = RemoveAt(@, i)]

OpTimesOutAt(i) ==
    /\ Idle(Cur)
    /\ timers[i].k = "op" /\ CanFire(Cur, i)
    /\ Commit(resume(Fired(i), timers[i].id, "OperationTimeout"), FALSE)

ConnectTimesOutAt(i) ==
    /\ Idle(Cur)
    /\ timers[i].k = "conn" /\ CanFire(Cur, i)
    /\ Commit(onConnectTimeout(Fired(i), timers[i].id), FALSE)

ReconnectTimerFiresAt(i) ==
    /\ Idle(Cur)
    /\ timers[i].k = "reconn" /\ CanFire(Cur, i)
    /\ LET e == timers[i].id IN
       /\ (entries[e].refCount > 0 /\ ~entries[e].connected
             /\ entries[e].connecting = None) => ConnectRoom(Cur, e)
       /\ Commit(onReconnectTimer(Fired(i), e), FALSE)

\* The gateway accepts the connection.
SocketConnectsAt(s) ==
    /\ Idle(Cur)
    /\ sockets[s].state = "connecting"
    /\ Commit(ForEach(onConnected, [Cur EXCEPT !.sockets[s].state = "open"],
                      sockets[s].listeners), FALSE)

socketError(S, s) ==
    ForEach(onConnectError, DestroySocket(S, s), S.sockets[s].listeners)

\* The connection is refused or reset: 'error', then 'close'.
SocketErrorsAt(s) ==
    /\ Idle(Cur)
    /\ sockets[s].state \in {"connecting", "open"}
    /\ Commit(socketError(Cur, s), FALSE)

\* The gateway ends the connection: 'close' without 'error'.
SocketEndsAt(s) ==
    /\ Idle(Cur)
    /\ sockets[s].state = "open"
    /\ Commit(DestroySocket(Cur, s), FALSE)

\* socket.connect() was called on a socket already connecting or connected.
DoomedSocketErrorsAt(s) ==
    /\ Quiet(Cur)
    /\ sockets[s].state = "doomed"
    /\ Commit(socketError(Cur, s), FALSE)

SocketClosesAt(s) ==
    /\ Quiet(Cur) /\ ~DoomPending(Cur)
    /\ sockets[s].closePending
    /\ Commit(onClose([Cur EXCEPT !.sockets[s].closePending = FALSE],
                      sockets[s].entry), FALSE)

OpCompletes == \E o \in 1..Len(ops) : OpCompletesAt(o)

OpFails == \E o \in 1..Len(ops) : OpFailsAt(o)

OpTimesOut == \E i \in 1..Len(timers) : OpTimesOutAt(i)

ConnectTimesOut == \E i \in 1..Len(timers) : ConnectTimesOutAt(i)

ReconnectTimerFires == \E i \in 1..Len(timers) : ReconnectTimerFiresAt(i)

SocketConnects == \E s \in 1..Len(sockets) : SocketConnectsAt(s)

SocketErrors == \E s \in 1..Len(sockets) : SocketErrorsAt(s)

SocketEnds == \E s \in 1..Len(sockets) : SocketEndsAt(s)

DoomedSocketErrors == \E s \in 1..Len(sockets) : DoomedSocketErrorsAt(s)

SocketCloses == \E s \in 1..Len(sockets) : SocketClosesAt(s)

Next ==
    \/ EnvAcquire
    \/ EnvExecute
    \/ EnvRelease
    \/ EnvDestroy
    \/ JobThenable
    \/ JobAdoptQ
    \/ JobCatchW
    \/ JobAcquireResumed
    \/ JobExecuteResumed
    \/ JobWake
    \/ OpCompletes
    \/ OpFails
    \/ OpTimesOut
    \/ ConnectTimesOut
    \/ ReconnectTimerFires
    \/ SocketConnects
    \/ SocketErrors
    \/ SocketEnds
    \/ DoomedSocketErrors
    \/ SocketCloses

Spec == Init /\ [][Next]_vars

\* ---- timers of one timers phase -------------------------------------------
\* Timers that have expired together run in one timers phase of the event
\* loop, while the 'close' of a socket destroyed there is emitted in the
\* close phase that follows. The application calls destroy() from a timer
\* callback and the timer of a running operation has expired with it: the
\* operation's timer fires after destroy() and before any 'close'.
DestroyThenOpTimesOutAt(i) ==
    /\ Idle(Cur)
    /\ tornDown = {}
    /\ pool # 0
    /\ timers[i].k = "op" /\ CanFire(Cur, i)
    /\ Commit(resume(destroy(Fired(i)), timers[i].id, "OperationTimeout"), FALSE)

DestroyThenOpTimesOut == \E i \in 1..Len(timers) : DestroyThenOpTimesOutAt(i)

NextPhase ==
    \/ Next
    \/ DestroyThenOpTimesOut

SpecPhase == Init /\ [][NextPhase]_vars

\* ---- reconnection without caller action -----------------------------------
\* The setting of the reconnect guarantee: one holder of the connection, which
\* calls execute() only on a connected entry, and a gateway that drops or
\* refuses a connection only a bounded number of times (as long as the model
\* has room for the transport that replaces the dropped one).
GatewayMayFail == Len(sockets) < MaxSockets

LiveAcquire == acqs = <<>> /\ EnvAcquire

LiveExecute == pool # 0 /\ entries[pool].connected /\ EnvExecute

LiveConnectTimesOut == GatewayMayFail /\ ConnectTimesOut

LiveSocketErrors == GatewayMayFail /\ SocketErrors

LiveSocketEnds == GatewayMayFail /\ SocketEnds

\* What the event loop and an accepting gateway are bound to do: run the
\* queued promise jobs, fire the armed timers, emit the pending 'close'
\* events, complete the connection of a connecting socket.
Scheduled ==
    \/ JobThenable
    \/ JobAdoptQ
    \/ JobAcquireResumed
    \/ JobWake
    \/ OpTimesOut
    \/ ReconnectTimerFires
    \/ SocketConnects
    \/ SocketCloses

NextLive ==
    \/ LiveAcquire
    \/ LiveExecute
    \/ OpCompletes
    \/ OpFails
    \/ LiveConnectTimesOut
    \/ LiveSocketErrors
    \/ LiveSocketEnds
    \/ Scheduled

SpecLive == Init /\ [][NextLive]_vars /\ WF_vars(Scheduled)

\* ---- any callers, any gateway, a running event loop ------------------------
\* What the event loop is bound to do whatever the gateway does: run the
\* queued promise jobs, fire the armed timers, emit the pending socket events.
Loop ==
    \/ JobThenable
    \/ JobAdoptQ
    \/ JobCatchW
    \/ JobAcquireResumed
    \/ JobExecuteResumed
    \/ JobWake
    \/ OpTimesOut
    \/ ConnectTimesOut
    \/ ReconnectTimerFires
    \/ DoomedSocketErrors
    \/ SocketCloses

\* One holder of the connection; any execute(), release(), destroy() and any
\* behaviour of the gateway and of the operations.
NextFair ==
    \/ LiveAcquire
    \/ EnvExecute
    \/ EnvRelease
    \/ EnvDestroy
    \/ OpCompletes
    \/ OpFails
    \/ SocketConnects
    \/ SocketErrors
    \/ SocketEnds
    \/ Loop

SpecFair == Init /\ [][NextFair]_vars /\ WF_vars(Loop)

\* ---- discoverDevices() and scanSlaveRange() --------------------------------
\* discoverDevices() is called: the transient socket and its client are
\* created and socket.connect() is called.
DiscoverStarts ==
    /\ scanPc = "idle"
    /\ scanPc' = "connecting"
    /\ scanSocket' = "connecting"
    /\ UNCHANGED <<slaveId, endId, devices, consecutiveTimeouts, stopped, last,
                   probed, found>>
    /\ UNCHANGED <<mgrVars, codecVars, devVars>>

\* scanSlaveRange(client, settings, startId, end) up to its loop.
scanSlaveRange(startId, end) ==
    /\ slaveId' = startId
    /\ endId' = end
    /\ devices' = <<>>
    /\ consecutiveTimeouts' = 0
    /\ stopped' = FALSE

\* The connect callback: the scan of the primary range begins.
DiscoverConnects ==
    /\ scanPc = "connecting"
    /\ scanPc' = "primary"
    /\ scanSocket' = "open"
    /\ scanSlaveRange(PrimaryStart, PrimaryEnd)
    /\ UNCHANGED <<last, probed, found>>
    /\ UNCHANGED <<mgrVars, codecVars, devVars>>

\* The 10 s connect timeout or a socket error: discoverDevices() raises, its
\* finally clause destroys the socket.
DiscoverConnectFails ==
    /\ scanPc = "connecting"
    /\ scanPc' = "failed"
    /\ scanSocket' = "destroyed"
    /\ UNCHANGED <<slaveId, endId, devices, consecutiveTimeouts, stopped, last,
                   probed, found>>
    /\ UNCHANGED <<mgrVars, codecVars, devVars>>

Scanning == scanPc \in {"primary", "secondary"}

CountProbe == [probed EXCEPT ![scanPc] = @ + 1]

\* The loop iteration as it would be with 0 as the only absence sentinel.
ProbeAnswered_onlyZero(typeId, deviceName) ==
    /\ Scanning /\ ~stopped /\ slaveId < endId
    /\ typeId \in DOMAIN POWERTAG_MODELS => Len(devices) < MaxFound
    /\ consecutiveTimeouts' = 0
    /\ IF typeId = 0
       THEN /\ devices' = devices
            /\ last' = [id |-> slaveId, typeId |-> typeId, failed |-> FALSE,
                        lookup |-> FALSE, nameRead |-> FALSE, name |-> "", waited |-> FALSE]
       ELSE IF modelsGet(typeId) = NoModel
       THEN /\ devices' = devices
            /\ last' = [id |-> slaveId, typeId |-> typeId, failed |-> FALSE,
                        lookup |-> TRUE, nameRead |-> FALSE, name |-> "", waited |-> FALSE]
       ELSE /\ devices' = Append(devices, Descriptor(slaveId, typeId, deviceName))
            /\ last' = [id |-> slaveId, typeId |-> typeId, failed |-> FALSE,
                        lookup |-> TRUE, nameRead |-> TRUE, name |-> deviceName, waited |-> FALSE]
    /\ slaveId' = slaveId + 1
    /\ probed' = CountProbe
    /\ UNCHANGED <<scanPc, scanSocket, endId, stopped, found>>
    /\ UNCHANGED <<mgrVars, codecVars, devVars>>

\* The loop iteration as it would be if a failed name read fell through to the
\* outer catch clause.
ProbeAnswered_nameFailureDrops(typeId, deviceName) ==
    /\ Scanning /\ ~stopped /\ slaveId < endId
    /\ typeId \in DOMAIN POWERTAG_MODELS => Len(devices) < MaxFound
    /\ IF typeId = 0 \/ typeId = 65535
       THEN /\ devices' = devices
            /\ consecutiveTimeouts' = 0
            /\ last' = [id |-> slaveId, typeId |-> typeId, failed |-> FALSE,
                        lookup |-> FALSE, nameRead |-> FALSE, name |-> "", waited |-> FALSE]
       ELSE IF modelsGet(typeId) = NoModel
       THEN /\ devices' = devices
            /\ consecutiveTimeouts' = 0
            /\ last' = [id |-> slaveId, typeId |-> typeId, failed |-> FALSE,
                        lookup |-> TRUE, nameRead |-> FALSE, name |-> "", waited |-> FALSE]
       ELSE IF deviceName = "fail"
       THEN /\ devices' = devices
            /\ consecutiveTimeouts' = consecutiveTimeouts + 1
            /\ last' = [id |-> slaveId, typeId |-> typeId, failed |-> FALSE,
                        lookup |-> TRUE, nameRead |-> TRUE, name |-> deviceName, waited |-> FALSE]
       ELSE /\ devices' = Append(devices, Descriptor(slaveId, typeId, deviceName))
            /\ consecutiveTimeouts' = 0
            /\ last' = [id |-> slaveId, typeId |-> typeId, failed |-> FALSE,
                        lookup |-> TRUE, nameRead |-> TRUE, name |-> deviceName, waited |-> FALSE]
    /\ slaveId' = slaveId + 1
    /\ probed' = CountProbe
    /\ UNCHANGED <<scanPc, scanSocket, endId, stopped, found>>
    /\ UNCHANGED <<mgrVars, codecVars, devVars>>

\* One loop iteration whose readDeviceType() returns typeId; deviceName is
\* what readDeviceName() gives if it is called ("fail": it throws).
ProbeAnswered(typeId, deviceName) ==
    /\ Scanning /\ ~stopped /\ slaveId < endId
    /\ typeId \in DOMAIN POWERTAG_MODELS => Len(devices) < MaxFound
    /\ consecutiveTimeouts' = 0
    /\ IF typeId = 0 \/ typeId = 65535
       THEN /\ devices' = devices
            /\ last' = [id |-> slaveId, typeId |-> typeId, failed |-> FALSE,
                        lookup |-> FALSE, nameRead |-> FALSE, name |-> "", waited |-> FALSE]
       ELSE IF modelsGet(typeId) = NoModel
       THEN /\ devices' = devices
            /\ last' = [id |-> slaveId, typeId |-> typeId, failed |-> FALSE,
                        lookup |-> TRUE, nameRead |-> FALSE, name |-> "", waited |-> FALSE]
       ELSE /\ devices' = Append(devices, Descriptor(slaveId, typeId, deviceName))
            /\ last' = [id |-> slaveId, typeId |-> typeId, failed |-> FALSE,
                        lookup |-> TRUE, nameRead |-> TRUE, name |-> deviceName, waited |-> FALSE]
    /\ slaveId' = slaveId + 1
    /\ probed' = CountProbe
    /\ UNCHANGED <<scanPc, scanSocket, endId, stopped, found>>
    /\ UNCHANGED <<mgrVars, codecVars, devVars>>

\* The loop iteration as it would be without the catch clause: the exception
\* of readDeviceType() leaves scanSlaveRange() and discoverDevices().
ProbeFailed_raises ==
    /\ Scanning /\ ~stopped /\ slaveId < endId
    /\ last' = [id |-> slaveId, typeId |-> 0, failed |-> TRUE,
                lookup |-> FALSE, nameRead |-> FALSE, name |-> "", waited |-> FALSE]
    /\ scanPc' = "failed"
    /\ scanSocket' = "destroyed"
    /\ probed' = CountProbe
    /\ UNCHANGED <<slaveId, endId, devices, consecutiveTimeouts, stopped, found>>
    /\ UNCHANGED <<mgrVars, codecVars, devVars>>

\* The catch clause as it would be without `&& devices.length > 0`.
ProbeFailed_stopsWithoutDevice ==
    /\ Scanning /\ ~stopped /\ slaveId < endId
    /\ consecutiveTimeouts' = consecutiveTimeouts + 1
    /\ last' = [id |-> slaveId, typeId |-> 0, failed |-> TRUE,
                lookup |-> FALSE, nameRead |-> FALSE, name |-> "", waited |-> FALSE]
    /\ IF consecutiveTimeouts + 1 >= TimeoutThreshold
       THEN stopped' = TRUE /\ slaveId' = slaveId
       ELSE stopped' = FALSE /\ slaveId' = slaveId + 1
    /\ probed' = CountProbe
    /\ UNCHANGED <<scanPc, scanSocket, endId, devices, found>>
    /\ UNCHANGED <<mgrVars, codecVars, devVars>>

\* One loop iteration whose readDeviceType() throws: the catch clause.
ProbeFailed ==
    /\ Scanning /\ ~stopped /\ slaveId < endId
    /\ consecutiveTimeouts' = consecutiveTimeouts + 1
    /\ last' = [id |-> slaveId, typeId |-> 0, failed |-> TRUE,
                lookup |-> FALSE, nameRead |-> FALSE, name |-> "", waited |-> FALSE]
    /\ IF consecutiveTimeouts + 1 >= TimeoutThreshold /\ Len(devices) > 0
       THEN stopped' = TRUE /\ slaveId' = slaveId
       ELSE stopped' = FALSE /\ slaveId' = slaveId + 1
    /\ probed' = CountProbe
    /\ UNCHANGED <<scanPc, scanSocket, endId, devices, found>>
    /\ UNCHANGED <<mgrVars, codecVars, devVars>>

ScanProbes ==
    \E typeId \in ProbeValues : \E deviceName \in NameValues :
        ProbeAnswered(typeId, deviceName)

\* discoverDevices() as it would be if it scanned the secondary range whatever
\* the primary range gave.
ScanReturns_scansBoth ==
    /\ Scanning /\ (stopped \/ slaveId >= endId)
    /\ IF scanPc = "primary"
       THEN /\ scanPc' = "secondary"
            /\ scanSlaveRange(SecondaryStart, SecondaryEnd)
            /\ UNCHANGED <<scanSocket, found>>
       ELSE /\ scanPc' = "done"
            /\ found' = devices
            /\ scanSocket' = "destroyed"
            /\ UNCHANGED <<slaveId, endId, devices, consecutiveTimeouts, stopped>>
    /\ UNCHANGED <<last, probed>>
    /\ UNCHANGED <<mgrVars, codecVars, devVars>>

\* discoverDevices() as it would be without its finally clause.
ScanReturns_leavesSocketOpen ==
    /\ Scanning /\ (stopped \/ slaveId >= endId)
    /\ IF scanPc = "primary" /\ Len(devices) = 0
       THEN /\ scanPc' = "secondary"
            /\ scanSlaveRange(SecondaryStart, SecondaryEnd)
            /\ UNCHANGED <<scanSocket, found>>
       ELSE /\ scanPc' = "done"
            /\ found' = devices
            /\ UNCHANGED <<scanSocket, slaveId, endId, devices, consecutiveTimeouts,
                           stopped>>
    /\ UNCHANGED <<last, probed>>
    /\ UNCHANGED <<mgrVars, codecVars, devVars>>

\* scanSlaveRange() returns to discoverDevices(): the secondary range is
\* scanned when the primary one gave nothing, else the list is returned and
\* the finally clause destroys the socket.
ScanReturns ==
    /\ Scanning /\ (stopped \/ slaveId >= endId)
    /\ IF scanPc = "primary" /\ Len(devices) = 0
       THEN /\ scanPc' = "secondary"
            /\ scanSlaveRange(SecondaryStart, SecondaryEnd)
            /\ UNCHANGED <<scanSocket, found>>
       ELSE /\ scanPc' = "done"
            /\ found' = devices
            /\ scanSocket' = "destroyed"
            /\ UNCHANGED <<slaveId, endId, devices, consecutiveTimeouts, stopped>>
    /\ UNCHANGED <<last, probed>>
    /\ UNCHANGED <<mgrVars, codecVars, devVars>>

NextScan ==
    \/ DiscoverStarts
    \/ DiscoverConnects
    \/ DiscoverConnectFails
    \/ ScanProbes
    \/ ProbeFailed
    \/ ScanReturns

SpecScan == Init /\ [][NextScan]_vars

\* ---- calls of the codec -----------------------------------------------------
\* The gateways considered.  A register holds 16 bits, sent most significant
\* byte first; a float block holds n floats told apart by their bytes; an
\* energy counter is a signed 64-bit integer (the counters considered fit the
\* integers of the model checker); a string block is the string followed by
\* zero bytes.
ToBE16(v) == <<v \div 256, v % 256>>

ToBE32(n) == <<n \div 16777216, (n \div 65536) % 256, (n \div 256) % 256, n % 256>>

ToBE64(n) ==
    IF n >= 0 THEN <<0, 0, 0, 0>> \o ToBE32(n)
    ELSE Complement(<<0, 0, 0, 0>> \o ToBE32(-n - 1))

FloatBlock(tag, n) == [i \in 1..(4 * n) |-> tag * 16 + i]

Padded(str, n) == [i \in 1..n |-> IF i <= Len(str) THEN str[i] ELSE 0]

EnergyValues == {0, 999, 1000000, 16909060, -1}

RegisterValues == {0, 1, 2, 256, 65535}

AlarmLevels == 0..3

\* "Kitchen", " Ab " and the empty string.
DeviceNames == {<<75, 105, 116, 99, 104, 101, 110>>, <<32, 65, 98, 32>>, <<>>}

\* "A9MEM1560" and the empty string.
CommercialRefs == {<<65, 57, 77, 69, 77, 49, 53, 54, 48>>, <<>>}

\* Slot tables of a Panel Server: slot -> unit id, the other slots empty.
SlotTables == {<<>>, (1 :> 150), (26 :> 151 @@ 99 :> 169), (25 :> 65535 @@ 51 :> 100)}

\* The four chunks the table is read in.
TableChunk(table, firstReg, n) ==
    [i \in 1..(2 * n) |->
        LET reg == firstReg + (i - 1) \div 2
            slot == reg \div 5 + 1
            value == IF reg % 5 = 0 /\ slot \in DOMAIN table THEN table[slot] ELSE 0
        IN  ToBE16(value)[2 - (i % 2)]]

\* The payloads shorter than the block asked for that are considered.
Shortened(bytes) ==
    {SubSeq(bytes, 1, k) : k \in {0, 1, Len(bytes) - 1} \cap 0..(Len(bytes) - 1)}

\* The gateway answers every read in full, or fails one of them: no answer,
\* or a payload shorter than the block asked for.
Gateways(mem) ==
    {mem} \cup UNION {{[mem EXCEPT ![a] = d] :
                          d \in {NoAnswer} \cup {Answer(b) : b \in Shortened(mem[a].bytes)}} :
                      a \in DOMAIN mem}

\* What the gateway holds of a sensor's measurements, and of a HeatTag's.
MeasuredMem ==
    REG_CURRENT_L1 :> Answer(FloatBlock(1, 3)) @@
    REG_VOLTAGE_LN_1 :> Answer(FloatBlock(2, 3)) @@
    REG_VOLTAGE_LL_1 :> Answer(FloatBlock(3, 3)) @@
    REG_POWER_L1 :> Answer(FloatBlock(4, 4)) @@
    REG_POWER_FACTOR :> Answer(FloatBlock(5, 1)) @@
    REG_FREQUENCY :> Answer(FloatBlock(6, 1)) @@
    REG_TEMPERATURE :> Answer(FloatBlock(7, 1))

HeatTagMem ==
    REG_HEATTAG_TEMP :> Answer(FloatBlock(8, 1)) @@
    REG_HEATTAG_HUMIDITY :> Answer(FloatBlock(9, 1))

EnergyMem(imported, exported) ==
    MeasuredMem @@
    REG_ENERGY_IMPORTED :> Answer(ToBE64(imported)) @@
    REG_ENERGY_EXPORTED :> Answer(ToBE64(exported))

\* The registers of the device that poll() reads.
PolledMem == EnergyMem(0, 0)

\* The call of a codec function: its arguments, what the gateway answers, the
\* requests it issues and what it settles with.
Apply(fn, args, mem, r) ==
    /\ codecCall' = [fn |-> fn, args |-> args, mem |-> mem]
    /\ requests' = r.requests
    /\ outcome' = r.outcome
    /\ UNCHANGED <<mgrVars, scanVars, devVars>>

CallReadAllRegisters ==
    \E voltageMode \in {"L-N", "L-L"} : \E imported \in EnergyValues :
    \E exported \in EnergyValues : \E mem \in Gateways(EnergyMem(imported, exported)) :
        Apply("readAllRegisters", <<voltageMode>>, mem, readAllRegisters(mem, voltageMode))

CallReadHeatTagRegisters ==
    \E alarm \in AlarmLevels :
    \E mem \in Gateways(HeatTagMem @@ REG_HEATTAG_ALARM :> Answer(ToBE16(alarm))) :
        Apply("readHeatTagRegisters", <<>>, mem, readHeatTagRegisters(mem))

CallReadControl2DIRegisters ==
    \E di1 \in RegisterValues : \E di2 \in RegisterValues :
    \E mem \in Gateways(REG_DI1_STATUS :> Answer(ToBE16(di1)) @@
                        REG_DI2_STATUS :> Answer(ToBE16(di2))) :
        Apply("readControl2DIRegisters", <<>>, mem, readControl2DIRegisters(mem))

CallReadControlIORegisters ==
    \E di1 \in RegisterValues : \E do1 \in RegisterValues :
    \E mem \in Gateways(REG_DI1_STATUS :> Answer(ToBE16(di1)) @@
                        REG_DO1_STATUS :> Answer(ToBE16(do1))) :
        Apply("readControlIORegisters", <<>>, mem, readControlIORegisters(mem))

CallWriteControlIOOutput ==
    \E on \in BOOLEAN : \E accepted \in BOOLEAN :
        Apply("writeControlIOOutput", <<on>>, <<>>, writeControlIOOutput(on, accepted))

CallReadDeviceType ==
    \E typeId \in ProbeValues :
    \E mem \in Gateways(REG_DEVICE_TYPE :> Answer(ToBE16(typeId))) :
        Apply("readDeviceType", <<>>, mem, readDeviceType(mem))

CallReadDeviceName ==
    \E name \in DeviceNames :
    \E mem \in Gateways(REG_DEVICE_NAME :> Answer(Padded(name, 20))) :
        Apply("readDeviceName", <<>>, mem, readDeviceName(mem))

CallReadCommercialReference ==
    \E ref \in CommercialRefs :
    \E mem \in Gateways(REG_COMMERCIAL_REF :> Answer(Padded(ref, 32))) :
        Apply("readCommercialReference", <<>>, mem, readCommercialReference(mem))

CallReadPanelServerDeviceAddresses ==
    \E table \in SlotTables :
    \E mem \in Gateways(
            REG_PAS_DEVICE_ADDRESS :> Answer(TableChunk(table, 0, 125)) @@
            (REG_PAS_DEVICE_ADDRESS + 125) :> Answer(TableChunk(table, 125, 125)) @@
            (REG_PAS_DEVICE_ADDRESS + 250) :> Answer(TableChunk(table, 250, 125)) @@
            (REG_PAS_DEVICE_ADDRESS + 375) :> Answer(TableChunk(table, 375, 120))) :
        Apply("readPanelServerDeviceAddresses", <<>>, mem,
              readPanelServerDeviceAddresses(mem))

\* poll() of a device whose model is typeId: the energy registers are read
\* in the voltage mode of the model's configuration.
poll(typeId) ==
    Apply("poll", <<typeId>>, PolledMem,
          readAllRegisters(PolledMem, POWERTAG_MODELS[typeId].voltageMode))

DevicePolls == \E typeId \in DOMAIN POWERTAG_MODELS : poll(typeId)

NextCodec ==
    \/ DevicePolls
    \/ CallReadAllRegisters
    \/ CallReadHeatTagRegisters
    \/ CallReadControl2DIRegisters
    \/ CallReadControlIORegisters
    \/ CallWriteControlIOOutput
    \/ CallReadDeviceType
    \/ CallReadDeviceName
    \/ CallReadCommercialReference
    \/ CallReadPanelServerDeviceAddresses

SpecCodec == Init /\ [][NextCodec]_vars

\* ---- the device's lifecycle ------------------------------------------------
\* onInit(): the settings are read; an unknown model type makes the device
\* unavailable and returns; else the gateway is acquired (ok: the acquire
\* succeeds) and polling starts.
onInit(address, typeId, ok) ==
    /\ devPc = "new"
    /\ devSettings' = address
    /\ IF typeId \notin DOMAIN POWERTAG_MODELS
       THEN /\ devPc' = "stopped"
            /\ devAvailable' = FALSE
            /\ UNCHANGED acquireCalls
       ELSE /\ devPc' = "running"
            /\ devAvailable' = ok
            /\ acquireCalls' = [acquireCalls EXCEPT ![address] = @ + 1]
    /\ UNCHANGED <<releaseCalls, nSettings>>
    /\ UNCHANGED <<mgrVars, scanVars, codecVars>>

\* onSettings(): when the address or the port has changed, the old key is
\* released and the new one acquired; the settings take the new key only
\* when that acquire succeeds.
onSettings(changed, newKey, ok) ==
    /\ devPc \in {"stopped", "running"}
    /\ nSettings < MaxSettings
    /\ nSettings' = nSettings + 1
    /\ IF changed
       THEN /\ releaseCalls' = [releaseCalls EXCEPT ![devSettings] = @ + 1]
            /\ acquireCalls' = [acquireCalls EXCEPT ![newKey] = @ + 1]
            /\ devSettings' = IF ok THEN newKey ELSE devSettings
            /\ devAvailable' = ok
       ELSE UNCHANGED <<releaseCalls, acquireCalls, devSettings, devAvailable>>
    /\ UNCHANGED devPc
    /\ UNCHANGED <<mgrVars, scanVars, codecVars>>

\* onUninit(): polling stops and the key of the settings is released.
onUninit ==
    /\ devPc \in {"stopped", "running"}
    /\ devPc' = "uninit"
    /\ releaseCalls' = [releaseCalls EXCEPT ![devSettings] = @ + 1]
    /\ UNCHANGED <<devSettings, devAvailable, acquireCalls, nSettings>>
    /\ UNCHANGED <<mgrVars, scanVars, codecVars>>

DeviceInits ==
    \E address \in Keys : \E typeId \in ProbeValues : \E ok \in BOOLEAN :
        onInit(address, typeId, ok)

DeviceSettingsChange ==
    \E changed \in BOOLEAN : \E newKey \in Keys : \E ok \in BOOLEAN :
        onSettings(changed, newKey, ok)

NextDevice ==
    \/ DeviceInits
    \/ DeviceSettingsChange
    \/ onUninit

SpecDevice == Init /\ [][NextDevice]_vars

\* ---- claims ----------------------------------------------------------------
EntryIds == 1..Len(entries)
OpIds == 1..Len(ops)
AcqIds == 1..Len(acqs)
AttemptIds == 1..Len(attempts)
SocketIds == 1..Len(sockets)

\* C1: the reference count of an entry is never negative, and (for entries
\* handled by acquire and release only) the entry is in the pool exactly when
\* its reference count is greater than 0.
C1_RefCountMatchesPool ==
    \A e \in EntryIds :
        /\ entries[e].refCount >= 0
        /\ e \notin tornDown => ((pool = e) <=> (entries[e].refCount > 0))

\* An acquire whose connect attempt failed, a second acquire and a release:
\* the entry is still in the pool, with count 1.
C1_Witness ==
    /\ nRel = 1
    /\ pool # 0
    /\ entries[pool].refCount = 1
    /\ \E c \in 1..Len(acqs) :
           acqs[c].entry = pool /\ acqs[c].st \in {"ConnectTimeout", "ConnectError"}

\* C3: at most one operation's transport call is outstanding per entry.
C3_OneOutstandingCall ==
    \A e \in EntryIds :
        Cardinality({o \in OpIds : ops[o].entry = e /\ ops[o].tcall = "out"}) <= 1

\* The connect attempts of entry e that have neither succeeded nor failed.
InFlight(e) == {a \in AttemptIds : attempts[a].entry = e /\ attempts[a].P.st = "pending"}

\* C4: at most one connect attempt is in flight per entry.
C4_OneAttemptInFlight == \A e \in EntryIds : Cardinality(InFlight(e)) <= 1

\* C7: an execute() call never fails with ConnectTimeout or ConnectError.
C7_ExecuteFailureKinds ==
    \A o \in OpIds : ops[o].res \notin {"ConnectTimeout", "ConnectError"}

\* The order of the execute() calls on an entry is the order of their ids.
StartedNow(o) == (o > Len(ops) \/ ops[o].where # "run") /\ ops'[o].where = "run"

DeliveredNow(o) == (o > Len(ops) \/ ops[o].res = "none") /\ ops'[o].res # "none"

Earlier(o) == {o2 \in 1..(o - 1) : ops'[o2].entry = ops'[o].entry}

RunInCallOrder ==
    \A o \in 1..Len(ops') :
        StartedNow(o) => \A o2 \in Earlier(o) : ops'[o2].where \in {"run", "gone"}

DeliveredInCallOrder ==
    \A o \in 1..Len(ops') :
        DeliveredNow(o) /\ ops'[o].entry # 0 => \A o2 \in Earlier(o) : ops'[o2].res # "none"

\* C2: operations are started (run against the transport) and have their
\* results delivered in the order of the execute() calls on the entry, given
\* a transport that answers in order (and no destroy()).
C2_FifoOrder ==
    [][RunInCallOrder
       /\ (answersInOrder' /\ tornDown' = {} => DeliveredInCallOrder)]_vars

AcquireOkNow(c) == (c > Len(acqs) \/ acqs[c].st = "wait") /\ acqs'[c].st = "ok"

\* C5: acquire() completes successfully only with the entry connected, and
\* fails when the connect attempt it started or waited on failed.
C5_AcquireOutcome ==
    [][\A c \in 1..Len(acqs') :
          AcquireOkNow(c) =>
              /\ entries'[acqs'[c].entry].connected
              /\ acqs'[c].att # 0 => attempts'[acqs'[c].att].P.st = "ok"]_vars

ExecuteCalledNow == Len(ops') = Len(ops) + 1

CloseNow(s) == sockets[s].closePending /\ ~sockets'[s].closePending

ClosedEntryReset(e) ==
    /\ entries'[e].queue = <<>>
    /\ ~entries'[e].connected
    /\ entries'[e].connecting = None
    /\ ~entries'[e].processing

NeverRunAfterwards ==
    \A o \in OpIds :
        ops[o].where = "gone" /\ ops[o].tcall = "none" => ops'[o] = ops[o]

Dropped ==
    /\ pool # 0
    /\ entries[pool].refCount > 0
    /\ sockets[entries[pool].socket].state = "destroyed"
    /\ ~sockets[entries[pool].socket].closePending

Reconnected == pool # 0 /\ entries[pool].connected

ExecuteEnqueues ==
    ExecuteCalledNow /\ pool # 0 /\ entries[pool].connected =>
        /\ ops'[Len(ops')].where \in {"queue", "run"}
        /\ ops'[Len(ops')].res = "none"

\* C9: after a close with the entry still referenced the entry gets connected
\* again by the reconnect timer alone (which is armed again by the close that
\* follows a failed attempt); an execute() called on the reconnected entry is
\* enqueued, and is run once the gateway has stopped dropping connections.
C9_ReconnectsAlone ==
    /\ Dropped ~> Reconnected
    /\ [][ExecuteEnqueues]_vars
    /\ \A o \in 1..MaxExec :
           (o \in OpIds /\ ops[o].where = "queue" /\ ~GatewayMayFail)
               ~> (o \in OpIds /\ ops[o].tcall # "none")

\* The first transport was lost, and an operation has been answered on the
\* transport that the reconnect timer opened.
C9_Witness ==
    /\ Len(sockets) = 2
    /\ sockets[1].state = "destroyed"
    /\ \E o \in 1..Len(ops) : ops[o].sock = 2 /\ ops[o].res = "value"

Released(e) == pool # e /\ entries[e].refCount = 0

NewAttempts == (Len(attempts) + 1)..Len(attempts')

BackgroundStep == Len(acqs') = Len(acqs) /\ Len(ops') = Len(ops)

\* C10: a released entry (count 0, out of the pool) never gets a new
\* transport or connect attempt and never returns to the pool; a background
\* attempt starts only for an entry whose count is greater than 0.
C10_NoReconnectAfterRelease ==
    [][/\ \A e \in EntryIds :
              Released(e) =>
                  /\ pool' # e
                  /\ entries'[e].refCount = 0
                  /\ entries'[e].socket = entries[e].socket
                  /\ \A a \in NewAttempts : attempts'[a].entry # e
       /\ BackgroundStep =>
              \A a \in NewAttempts : entries[attempts'[a].entry].refCount > 0]_vars

\* The reconnect timer of a released entry is about to fire.
C10_Witness ==
    \E i \in 1..Len(timers) :
        /\ timers[i].k = "reconn"
        /\ Released(timers[i].id)
        /\ Idle(Cur) /\ CanFire(Cur, i)

\* The operation timer of o fires in this step (its transport call has not
\* been answered).
TimedOutNow(o) ==
    /\ \E i \in 1..Len(timers) : timers[i] = [k |-> "op", id |-> o]
    /\ ~\E i \in 1..Len(timers') : timers'[i] = [k |-> "op", id |-> o]
    /\ ops'[o].tcall = "out"

\* C11: when the timer of a dequeued operation expires the operation is
\* rejected with OperationTimeout and, in the same step, the drain loop
\* dequeues and starts the next queued operation of the entry.
C11_TimeoutThenNext ==
    [][\A o \in OpIds :
          TimedOutNow(o) =>
              LET e == ops[o].entry
                  q == entries[e].queue
              IN  /\ ops[o].where = "run" /\ ops[o].res = "none"
                  /\ ops'[o].res = "OperationTimeout"
                  /\ ops'[o].where = "gone"
                  /\ q # <<>> =>
                         /\ entries'[e].queue = Tail(q)
                         /\ ops'[Head(q)].where = "run"
                         /\ ops'[Head(q)].tcall = "out"
                         /\ ops'[Head(q)].sock = entries[e].socket]_vars

\* An operation that never answered has timed out, the operation queued
\* behind it is running and a third one is still queued.
C11_Witness ==
    \E o \in OpIds : \E o2 \in OpIds : \E o3 \in OpIds :
        /\ o < o2 /\ o2 < o3
        /\ ops[o].res = "OperationTimeout" /\ ops[o].tcall = "out"
        /\ ops[o2].entry = ops[o].entry /\ ops[o2].where = "run"
        /\ ops[o3].entry = ops[o].entry /\ ops[o3].where = "queue"

\* The running operation o fails in this step (operation error or timeout).
FailedInLoopNow(o) ==
    /\ ops[o].where = "run" /\ ops[o].res = "none"
    /\ ops'[o].res \in {"ProtocolError", "OperationTimeout"}

\* C12: the failure of one operation in the drain loop rejects that operation
\* only: the others keep their result state, the queue keeps its order (the
\* loop may take its head to run it), connected and refCount do not change.
C12_FailureIsLocal ==
    [][\A o \in OpIds :
          FailedInLoopNow(o) =>
              LET e == ops[o].entry
                  q == entries[e].queue
              IN  /\ \A o2 \in OpIds \ {o} : ops'[o2].res = ops[o2].res
                  /\ \/ entries'[e].queue = q
                     \/ q # <<>> /\ entries'[e].queue = Tail(q)
                  /\ \A e2 \in EntryIds :
                         /\ entries'[e2].connected = entries[e2].connected
                         /\ entries'[e2].refCount = entries[e2].refCount
                         /\ e2 # e => entries'[e2].queue = entries[e2].queue]_vars

\* An operation has failed with a protocol error while the next one runs and
\* a third one is still queued, unsettled.
C12_Witness ==
    \E o \in OpIds : \E o2 \in OpIds : \E o3 \in OpIds :
        /\ ops[o].res = "ProtocolError"
        /\ ops[o2].entry = ops[o].entry /\ ops[o2].where = "run"
        /\ ops[o2].res = "none"
        /\ ops[o3].entry = ops[o].entry /\ ops[o3].where = "queue"
        /\ ops[o3].res = "none"

\* C13: every execute() call eventually settles.
C13_ExecuteSettles ==
    \A o \in 1..MaxExec :
        (o \in OpIds) ~> (o \in OpIds /\ ops[o].res # "none")

\* An execute() call that waited for a connect attempt and one that was in
\* flight have both settled with a failure.
C13_Witness ==
    \E o \in OpIds : \E o2 \in OpIds :
        /\ ops[o].res = "NotConnected" /\ ops[o].entry # 0
        /\ ops[o2].res = "OperationTimeout"

\* release() is called in this step.
ReleaseNow == nRel' = nRel + 1

\* C14: a release that brings the count to 0 destroys the entry's socket and
\* removes the entry in the same step; a release that leaves the count above
\* 0 changes neither the sockets nor the pool.
C14_ReleaseToZeroRemoves ==
    [][ReleaseNow /\ pool # 0 =>
          LET e == pool IN
          /\ entries'[e].refCount = entries[e].refCount - 1
          /\ entries[e].refCount <= 1 =>
                 /\ pool' = 0
                 /\ sockets'[entries[e].socket].state = "destroyed"
                 /\ entries'[e].socket = entries[e].socket
          /\ entries[e].refCount > 1 =>
                 /\ pool' = e
                 /\ sockets' = sockets
                 /\ entries'[e].connected = entries[e].connected]_vars

\* The holder of a connected entry has released it: the entry is out of the
\* pool with count 0 and its socket is destroyed.
C14_Witness ==
    /\ nRel = 1
    /\ pool = 0
    /\ \E e \in EntryIds :
           /\ entries[e].refCount = 0
           /\ entries[e].connected
           /\ sockets[entries[e].socket].state = "destroyed"

\* C15: release() on a key without entry changes nothing.
C15_ReleaseWithoutEntry ==
    [][ReleaseNow /\ pool = 0 =>
          /\ pool' = 0
          /\ entries' = entries
          /\ sockets' = sockets
          /\ attempts' = attempts
          /\ timers' = timers
          /\ ops' = ops
          /\ acqs' = acqs]_vars

\* release() has been called on a key that was never acquired.
C15_Witness == nRel = 1 /\ entries = <<>> /\ pool = 0

\* destroy() is called in this step.
DestroyNow == tornDown' # tornDown

\* C16: destroy() destroys the socket of the entry in the pool, rejects every
\* operation queued on it with ManagerDestroyed and empties the pool.
C16_DestroyRejectsQueue ==
    [][DestroyNow =>
          LET e == pool
              q == entries[e].queue
          IN  /\ pool' = 0
              /\ tornDown' = tornDown \cup {e}
              /\ sockets'[entries[e].socket].state = "destroyed"
              /\ \A i \in 1..Len(q) : ops'[q[i]].res = "ManagerDestroyed"]_vars

\* destroy() has rejected a queued operation.
C16_Witness ==
    /\ pool = 0
    /\ \E o \in OpIds :
           /\ ops[o].res = "ManagerDestroyed"
           /\ ops[o].entry \in tornDown
           /\ sockets[entries[ops[o].entry].socket].state = "destroyed"

\* A probe is made in this step; last' tells its unit id and outcome.
ProbeNow == probed' # probed

InPrimary(d) == d.slaveId \in PrimaryStart..(PrimaryEnd - 1)

InSecondary(d) == d.slaveId \in SecondaryStart..(SecondaryEnd - 1)

\* C17: the secondary range is scanned exactly when the scan of the primary
\* range returned no device; otherwise no secondary id is probed and the
\* result holds primary-range devices only.
C17_SecondaryIffPrimaryEmpty ==
    [][/\ scanPc = "primary" /\ scanPc' # "primary" =>
              /\ (scanPc' = "secondary") <=> (Len(devices) = 0)
              /\ scanPc' = "secondary" \/ (scanPc' = "done" /\ found' = devices)
       /\ ProbeNow /\ probed'.secondary > probed.secondary =>
              /\ scanPc = "secondary"
              /\ last'.id \in SecondaryStart..(SecondaryEnd - 1)
       /\ ProbeNow /\ probed'.primary > probed.primary =>
              /\ scanPc = "primary"
              /\ last'.id \in PrimaryStart..(PrimaryEnd - 1)
       /\ scanPc' = "done" =>
              IF probed'.secondary = 0
              THEN Len(found') > 0 /\ \A i \in 1..Len(found') : InPrimary(found'[i])
              ELSE \A i \in 1..Len(found') : InSecondary(found'[i])]_vars

\* The primary range gave a device: the scan ended without a secondary probe.
C17_Witness ==
    /\ scanPc = "done"
    /\ probed = [primary |-> PrimaryEnd - PrimaryStart, secondary |-> 0]
    /\ Len(found) = 1
    /\ InPrimary(found[1])

Ascending(ds) == \A i \in 1..Len(ds) : \A j \in 1..Len(ds) :
    i < j => ds[i].slaveId < ds[j].slaveId

\* C18: every probe that returns a recognized type code adds one descriptor
\* with the probed unit id, the type code and the registry's model string, no
\* other step adds one, the list is in ascending id order, a range scanned
\* without failure is probed at every id, and the list is what is returned.
C18_OneDevicePerRecognizedId ==
    [][/\ ProbeNow =>
              /\ last'.id = slaveId
              /\ IF ~last'.failed /\ last'.typeId \in DOMAIN POWERTAG_MODELS
                 THEN /\ Len(devices') = Len(devices) + 1
                      /\ SubSeq(devices', 1, Len(devices)) = devices
                      /\ devices'[Len(devices')].slaveId = slaveId
                      /\ devices'[Len(devices')].typeId = last'.typeId
                      /\ devices'[Len(devices')].model =
                             POWERTAG_MODELS[last'.typeId].model
                 ELSE devices' = devices
       /\ ~ProbeNow => devices' = devices \/ devices' = <<>>
       /\ Ascending(devices')
       /\ scanPc' = "done" /\ scanPc # "done" =>
              /\ found' = devices
              /\ ~stopped =>
                     /\ probed.primary = PrimaryEnd - PrimaryStart
                     /\ probed.secondary \in {0, SecondaryEnd - SecondaryStart}]_vars

\* Two recognized devices of the secondary range are returned, in id order,
\* with the registry's model string, after a scan of all ids.
C18_Witness ==
    /\ scanPc = "done" /\ ~stopped
    /\ probed.secondary = SecondaryEnd - SecondaryStart
    /\ Len(found) = 2
    /\ found[1].slaveId < found[2].slaveId
    /\ found[1].typeId = 41 /\ found[1].model = "A9MEM1520"

\* C19: a probe that returns 0 or 65535 adds no device and causes neither a
\* registry lookup nor a name read; both values have the same effect.
C19_AbsenceSentinels ==
    [][ProbeNow /\ ~last'.failed /\ last'.typeId \in {0, 65535} =>
          /\ devices' = devices
          /\ ~last'.lookup
          /\ ~last'.nameRead
          /\ consecutiveTimeouts' = 0
          /\ slaveId' = slaveId + 1]_vars

\* The probe of a unit id has returned 65535 and the scan has gone on.
C19_Witness ==
    /\ Scanning
    /\ last.typeId = 65535 /\ ~last.failed
    /\ slaveId = last.id + 1

\* C20: a failed probe or an unrecognized type code never makes the scan
\* raise and never changes the devices found; the scan goes on with the next
\* unit id unless the early exit is taken (devices found, and the consecutive
\* failures have reached the threshold).
C20_FailureIsAbsorbed ==
    [][ProbeNow /\ (last'.failed \/ last'.typeId \notin DOMAIN POWERTAG_MODELS) =>
          /\ devices' = devices
          /\ scanPc' = scanPc
          /\ scanSocket' = scanSocket
          /\ IF stopped'
             THEN /\ last'.failed
                  /\ Len(devices) > 0
                  /\ consecutiveTimeouts' >= TimeoutThreshold
             ELSE slaveId' = slaveId + 1]_vars

\* A probe has failed after a device was found, and the scan goes on.
C20_Witness ==
    /\ Scanning /\ ~stopped
    /\ last.failed
    /\ Len(devices) > 0
    /\ slaveId = last.id + 1

\* scanSlaveRange() returns in this step.
RangeLeftNow == Scanning /\ scanPc' # scanPc

\* The early exit of scanSlaveRange() with minFailures as the number of
\* consecutive failed probes it takes: the break is taken only by a failed
\* probe, with a device found in the range and that many failures in a row; a
\* range is left before its end only after the break; every probe that
\* returns a value resets the counter; a range without device is probed to
\* its end.
EarlyExitRule(minFailures) ==
    /\ stopped' /\ ~stopped =>
           /\ ProbeNow /\ last'.failed
           /\ Len(devices') > 0
           /\ consecutiveTimeouts' >= minFailures
    /\ RangeLeftNow /\ slaveId < endId =>
           /\ stopped
           /\ Len(devices) > 0
           /\ consecutiveTimeouts >= minFailures
    /\ ProbeNow /\ ~last'.failed => consecutiveTimeouts' = 0
    /\ ProbeNow /\ last'.failed => consecutiveTimeouts' = consecutiveTimeouts + 1
    /\ RangeLeftNow /\ Len(devices) = 0 =>
           /\ slaveId = endId
           /\ probed[scanPc] = endId - (IF scanPc = "primary" THEN PrimaryStart
                                                               ELSE SecondaryStart)

\* C21 as stated: the scan of a range stops early only with a device found
\* and more than 10 consecutive failed probes; a probe that returns a value
\* resets the counter; a range without device is probed to its end.
C21_StopsAboveThreshold == [][EarlyExitRule(TimeoutThreshold + 1)]_vars

\* C21 as the code has it: the scan of a range stops early only with a device
\* found and at least 10 consecutive failed probes (the 10th failure in a row
\* stops it); a probe that returns a value resets the counter; a range
\* without device is probed to its end.
C21_StopsAtThreshold == [][EarlyExitRule(TimeoutThreshold)]_vars

\* The scan of a range has stopped before its end on the 10th failed probe in
\* a row, one device found.
C21_Witness ==
    /\ Scanning /\ stopped
    /\ slaveId < endId
    /\ Len(devices) = 1
    /\ consecutiveTimeouts = TimeoutThreshold
    /\ last.failed /\ last.id = slaveId

\* C22: when discoverDevices() has returned or raised, on whichever path, its
\* transient socket is destroyed; the socket is open only while the call
\* runs and is never reopened; no step of the discovery creates or changes
\* an entry, a socket, an attempt, a timer or a call of the connection pool.
C22_DiscoverDestroysSocket ==
    [][/\ scanPc' \in {"done", "failed"} => scanSocket' = "destroyed"
       /\ scanSocket = "destroyed" => scanSocket' = "destroyed"
       /\ scanSocket' \in {"connecting", "open"} <=> scanPc' \in {"connecting", "primary", "secondary"}
       /\ scanVars' # scanVars =>
              /\ UNCHANGED <<mgrVars, codecVars, devVars>>
              /\ pool' = 0 /\ entries' = <<>> /\ sockets' = <<>>]_vars

\* discoverDevices() has returned after an early exit of the scan, its socket
\* destroyed and the pool as it was.
C22_Witness ==
    /\ scanPc = "done" /\ stopped
    /\ scanSocket = "destroyed"
    /\ Len(found) > 0
    /\ pool = 0 /\ entries = <<>>

\* The payload the gateway answered the read at address with.
Payload(address) == codecCall.mem[address].bytes

Returned(fn) == codecCall.fn = fn /\ outcome.ok

\* C23: whatever counter n the gateway holds in a 64-bit register block,
\* the energy field decoded from it is n / 1000 (1 000 000 gives 1000); the
\* imported field comes from the block read at 3207 and the exported field
\* from the block read at 3211, each read as 4 registers.
C23_EnergyDividedBy1000 ==
    Returned("readAllRegisters") =>
        /\ \E n \in EnergyValues : Payload(REG_ENERGY_IMPORTED) = ToBE64(n)
        /\ \E n \in EnergyValues : Payload(REG_ENERGY_EXPORTED) = ToBE64(n)
        /\ \A n \in EnergyValues :
               /\ Payload(REG_ENERGY_IMPORTED) = ToBE64(n) =>
                      outcome.value.energyImported = [num |-> n, den |-> 1000]
               /\ Payload(REG_ENERGY_EXPORTED) = ToBE64(n) =>
                      outcome.value.energyExported = [num |-> n, den |-> 1000]
        /\ Payload(REG_ENERGY_IMPORTED) = ToBE64(1000000) =>
               outcome.value.energyImported.num = 1000 * outcome.value.energyImported.den
        /\ requests[7] = Read(3207, 4)
        /\ requests[8] = Read(3211, 4)

\* The energy decode of counters 1 000 000 (imported) and 999 (exported).
C23_Witness ==
    /\ Returned("readAllRegisters")
    /\ Payload(REG_ENERGY_IMPORTED) = <<0, 0, 0, 0, 0, 15, 66, 64>>
    /\ Payload(REG_ENERGY_EXPORTED) = ToBE64(999)
    /\ outcome.value.energyImported = [num |-> 1000000, den |-> 1000]
    /\ outcome.value.energyExported = [num |-> 999, den |-> 1000]

\* C24: in both digital decodes, an input status register holding 0 decodes
\* to true and one holding any other value (1 among them) decodes to false.
C24_DigitalInputInverted ==
    /\ Returned("readControl2DIRegisters") =>
           \A v \in RegisterValues :
               /\ Payload(REG_DI1_STATUS) = ToBE16(v) => outcome.value.di1Status = (v = 0)
               /\ Payload(REG_DI2_STATUS) = ToBE16(v) => outcome.value.di2Status = (v = 0)
    /\ Returned("readControlIORegisters") =>
           \A v \in RegisterValues :
               Payload(REG_DI1_STATUS) = ToBE16(v) => outcome.value.di1Status = (v = 0)
    /\ Returned("readControl2DIRegisters") \/ Returned("readControlIORegisters") =>
           /\ Payload(REG_DI1_STATUS) = <<0, 0>> => outcome.value.di1Status
           /\ Payload(REG_DI1_STATUS) = <<0, 1>> => ~outcome.value.di1Status

\* The input pair decoded from registers holding 0 and 1: on and off.
C24_Witness ==
    /\ Returned("readControl2DIRegisters")
    /\ Payload(REG_DI1_STATUS) = <<0, 0>> /\ outcome.value.di1Status
    /\ Payload(REG_DI2_STATUS) = <<0, 1>> /\ ~outcome.value.di2Status

\* C25 as stated: an output status register holding 1 decodes to output off.
C25_OutputOneIsOff ==
    Returned("readControlIORegisters") /\ Payload(REG_DO1_STATUS) = ToBE16(1) =>
        outcome.value.outputStatus = FALSE

\* C25 as the code has it: an output status register holding 1 decodes to
\* output on (true) and one holding any other value (0 among them) decodes to
\* off (false), the opposite of the input decode.
C25_OutputOneIsOn ==
    Returned("readControlIORegisters") =>
        /\ \A v \in RegisterValues :
               Payload(REG_DO1_STATUS) = ToBE16(v) => outcome.value.outputStatus = (v = 1)
        /\ Payload(REG_DO1_STATUS) = <<0, 1>> => outcome.value.outputStatus
        /\ Payload(REG_DO1_STATUS) = <<0, 0>> => ~outcome.value.outputStatus

\* Input and output registers both hold 1: input off, output on.
C25_Witness ==
    /\ Returned("readControlIORegisters")
    /\ Payload(REG_DI1_STATUS) = <<0, 1>> /\ ~outcome.value.di1Status
    /\ Payload(REG_DO1_STATUS) = <<0, 1>> /\ outcome.value.outputStatus

\* C26: a call of the output write issues one request, a single-register
\* write to the command register 37051, of 2 for on and 1 for off, whether
\* or not the gateway acknowledges it; no other codec function writes.
C26_WriteOnOrOff ==
    /\ codecCall.fn = "writeControlIOOutput" =>
           /\ Len(requests) = 1
           /\ Kind(requests[1]) = "write"
           /\ Address(requests[1]) = 37051
           /\ requests[1][3] = (IF codecCall.args[1] THEN 2 ELSE 1)
           /\ requests[1][3] \in {1, 2}
    /\ codecCall.fn # "writeControlIOOutput" =>
           \A i \in 1..Len(requests) : Kind(requests[i]) = "read"

\* The output was switched off: one write of 1 to the command register.
C26_Witness ==
    /\ codecCall.fn = "writeControlIOOutput"
    /\ codecCall.args = <<FALSE>>
    /\ requests = <<Write(REG_DO1_CMD, 1)>>
    /\ outcome.ok

\* The gateway answered a read of the call with fewer bytes than the
\* registers asked for.
ShortPayload ==
    \E i \in 1..Len(requests) :
        /\ Kind(requests[i]) = "read"
        /\ codecCall.mem[Address(requests[i])].ok
        /\ Len(Payload(Address(requests[i]))) < 2 * Quantity(requests[i])

\* C27: a codec read that was answered with a payload shorter than the
\* block it asked for fails.
C27_ShortPayloadFails == ShortPayload => ~outcome.ok

\* The operations a drain loop of entry e is awaiting: one per active loop.
Awaited(e) == {o \in OpIds : ops[o].entry = e /\ ops[o].where = "run"}

\* C28: at most one drain loop is running per entry at any time.
C28_OneDrainLoop == \A e \in EntryIds : Cardinality(Awaited(e)) <= 1

\* C29: a drain loop of an entry is active exactly when the entry's
\* processing flag is set, and an operation is dequeued only while the entry
\* is connected.
C29_FlagWhileDraining ==
    [][\A e \in 1..Len(entries') :
           /\ Awaited(e)' # {} => entries'[e].processing
           /\ entries'[e].processing => Awaited(e)' # {}
           /\ \A o \in 1..Len(ops') :
                  StartedNow(o) /\ ops'[o].entry = e => entries'[e].connected]_vars

\* C30: when an operation's result is delivered as a success, the unit id
\* bound on the client it was issued on is still the operation's own.
C30_UnitIdKept ==
    [][\A o \in OpIds :
           DeliveredNow(o) /\ ops'[o].res = "value" =>
               sockets[ops[o].sock].unitId = slaveIdOf(o)]_vars

\* The transport call of o ends in this step after the drain loop has moved
\* past o on its timeout.
LateAnswerNow(o) ==
    /\ ops[o].res = "OperationTimeout"
    /\ ops[o].tcall = "out"
    /\ ops'[o].tcall = "done"

\* C31: the result of an operation, once settled, never changes, and the
\* late completion or failure of the transport call of an operation already
\* rejected with OperationTimeout changes no operation's result.
C31_FirstSettlementWins ==
    [][/\ \A o \in OpIds : ops[o].res # "none" => ops'[o].res = ops[o].res
       /\ \A o \in OpIds :
              LateAnswerNow(o) =>
                  /\ Len(ops') = Len(ops)
                  /\ \A o2 \in OpIds : ops'[o2].res = ops[o2].res]_vars

\* The call of a timed-out operation was answered afterwards, while the
\* operation started after it has already been delivered its own value.
C31_Witness ==
    \E o \in OpIds : \E o2 \in OpIds :
        /\ ops[o].res = "OperationTimeout" /\ ops[o].tcall = "done"
        /\ ops[o2].entry = ops[o].entry /\ o < o2
        /\ ops[o2].res = "value"

\* The acquire() call c fails in this step.
AcquireFailedNow(c) ==
    /\ acqs[c].st = "wait"
    /\ acqs'[c].st \in {"ConnectTimeout", "ConnectError"}

AcquiresOn(e) == {c \in AcqIds : acqs[c].entry = e}

\* C32: the failure of an acquire() removes no entry and gives no reference
\* back; unless release() or destroy() was called meanwhile, the entry is
\* still the pool's entry of the key and its reference count counts every
\* acquire() made on it, the failed one included.
C32_FailedAcquireKeepsEntry ==
    [][\A c \in AcqIds :
          AcquireFailedNow(c) =>
              LET e == acqs[c].entry IN
              /\ pool' = pool
              /\ entries'[e].refCount = entries[e].refCount
              /\ nRel = 0 /\ tornDown = {} =>
                     /\ pool' = e
                     /\ entries'[e].refCount = Cardinality(AcquiresOn(e))
                     /\ entries'[e].refCount >= 1]_vars

\* An acquire() failed, the entry stayed, and a later execute() on the key
\* reconnected it and runs.
C32_Witness ==
    \E c \in AcqIds : \E o \in OpIds :
        /\ acqs[c].st \in {"ConnectTimeout", "ConnectError"}
        /\ nRel = 0 /\ tornDown = {}
        /\ pool = acqs[c].entry
        /\ entries[pool].refCount = Cardinality(AcquiresOn(pool))
        /\ entries[pool].connected
        /\ ops[o].entry = pool /\ ops[o].where = "run"

\* The entry's socket before the step was destroyed (a new entry has none).
HadDestroyedSocket(e) ==
    e <= Len(entries) /\ sockets[entries[e].socket].state = "destroyed"

\* C33: a connect attempt is never started on a destroyed socket: when the
\* entry's socket was destroyed, the attempt runs on a socket + client pair
\* created in the same step, bound to the entry and with the client's initial
\* unit id; an operation the drain loop starts runs on the entry's current
\* pair.
C33_ConnectsOnFreshSocket ==
    [][/\ \A a \in NewAttempts :
              LET e == attempts'[a].entry
                  s == entries'[e].socket
              IN  /\ sockets'[s].state # "destroyed"
                  /\ sockets'[s].entry = e
                  /\ \E i \in 1..Len(sockets'[s].listeners) : sockets'[s].listeners[i] = a
                  /\ HadDestroyedSocket(e) =>
                         /\ s = Len(sockets) + 1
                         /\ Len(sockets') = Len(sockets) + 1
                         /\ sockets'[s].state = "connecting"
                         /\ sockets'[s].unitId = 1
                         /\ ~sockets'[s].closePending
       /\ \A o \in 1..Len(ops') :
              StartedNow(o) => ops'[o].sock = entries'[ops'[o].entry].socket]_vars

\* The entry's first socket was destroyed, a later attempt connected a
\* second one, and an operation runs on the second.
C33_Witness ==
    \E e \in EntryIds : \E o \in OpIds :
        /\ entries[e].socket = 2
        /\ sockets[1].entry = e /\ sockets[1].state = "destroyed"
        /\ sockets[2].entry = e /\ sockets[2].state = "open"
        /\ ops[o].entry = e /\ ops[o].where = "run" /\ ops[o].sock = 2

\* The name the scan synthesizes for the recognized code typeId at unit id.
Synthesized(typeId, id) == [text |-> POWERTAG_MODELS[typeId].name, id |-> id]

\* C34: at a unit id that answers a recognized type code the name register
\* is read; whether that read fails or returns the empty name, the probe
\* counts as answered (the failure counter is reset, the scan goes on) and
\* the device is emitted under the name made of the model's name and the
\* unit id.
C34_NameFailureFallsBack ==
    [][ProbeNow =>
          /\ ~last'.failed /\ last'.typeId \in DOMAIN POWERTAG_MODELS => last'.nameRead
          /\ last'.nameRead /\ last'.name \in {"fail", ""} =>
                 /\ Len(devices') = Len(devices) + 1
                 /\ SubSeq(devices', 1, Len(devices)) = devices
                 /\ devices'[Len(devices')].slaveId = last'.id
                 /\ devices'[Len(devices')].name = Synthesized(last'.typeId, last'.id)
                 /\ consecutiveTimeouts' = 0
                 /\ ~stopped'
                 /\ slaveId' = slaveId + 1]_vars

\* The scan has emitted two devices under synthesized names, the later one
\* after a failed name read.
C34_Witness ==
    /\ last.nameRead /\ last.name = "fail"
    /\ Len(devices) = 2
    /\ devices[1].name = Synthesized(41, devices[1].slaveId)
    /\ devices[2].name = Synthesized(41, last.id)
    /\ consecutiveTimeouts = 0

\* A probe was made earlier in this scan.
ProbedBefore == probed.primary + probed.secondary > 0

\* C35: a probe that follows another probe of the scan is made only after
\* the earlier loop iteration has waited the inter-probe delay.
C35_WaitsBetweenProbes == [][ProbeNow /\ ProbedBefore => last.waited]_vars

\* The close handler of socket s runs in this step although the entry it was
\* set up for has replaced s by another socket.
StaleCloseNow(s) == CloseNow(s) /\ entries[sockets[s].entry].socket # s

\* C36: an entry is marked connected only while its current socket is open
\* (or its close is still to be handled), and the close event of a socket
\* the entry has already replaced changes neither the entry's connected
\* flag, nor its in-flight connect marker, nor its queue, nor any
\* operation's result.
C36_StaleCloseIgnored ==
    [][/\ \A e \in 1..Len(entries') :
              entries'[e].connected =>
                  \/ sockets'[entries'[e].socket].state = "open"
                  \/ sockets'[entries'[e].socket].closePending
       /\ \A s \in SocketIds :
              StaleCloseNow(s) =>
                  LET e == sockets[s].entry IN
                  /\ entries'[e].connected = entries[e].connected
                  /\ entries'[e].connecting = entries[e].connecting
                  /\ entries'[e].queue = entries[e].queue
                  /\ \A o \in OpIds : ops'[o].res = ops[o].res]_vars

\* C37: once destroy() has removed an entry from the pool, no connect
\* attempt is started for it, no socket is created for it and none of its
\* sockets is opened.
C37_NoConnectAfterDestroy ==
    [][/\ \A a \in NewAttempts : attempts'[a].entry \notin tornDown
       /\ \A s \in 1..Len(sockets') :
              sockets'[s].entry \in tornDown =>
                  /\ s <= Len(sockets)
                  /\ sockets'[s].state = "open" => sockets[s].state = "open"]_vars

RejectedByConnection(o) == ops[o].res \in {"ConnectionClosed", "ManagerDestroyed"}

\* C38: an operation already rejected with ConnectionClosed or
\* ManagerDestroyed is never dequeued and started by a drain loop: no
\* operation a drain loop has started and awaits carries such a result.
C38_RejectedNeverRun ==
    \A o \in OpIds : ops[o].where = "run" => ~RejectedByConnection(o)

\* C39: on no key has the device called release() more often than acquire().
C39_ReleasesWithinAcquires ==
    \A k \in Keys : releaseCalls[k] <= acquireCalls[k]

\* C40: the model of a polled device has voltage mode line-to-line when its
\* phases are three-phase without neutral, and then the voltage block read is
\* 3019; it has voltage mode line-to-neutral when its phases include a
\* neutral, and then the voltage block read is 3027.
C40_VoltageModeFollowsPhases ==
    codecCall.fn = "poll" =>
        LET modelConfig == POWERTAG_MODELS[codecCall.args[1]] IN
        /\ modelConfig.phases = "3P" =>
               /\ modelConfig.voltageMode = "L-L"
               /\ requests[2] = Read(3019, 6)
        /\ modelConfig.phases \in {"1P+N", "3P+N"} =>
               /\ modelConfig.voltageMode = "L-N"
               /\ requests[2] = Read(3027, 6)

====
